---------------------------- MODULE Spec2Model ----------------------------
(***************************************************************************)
(* The OH Race: a model of the world generator (aua_world.build_world),    *)
(* the region topology (search_algorithms.get_neighbors), the three search *)
(* strategies and the trace simulator                                      *)
(* (controller.fallback_run_with_metrics).                                 *)
(*                                                                         *)
(* A position is a pair <<x, y>>; a grid is a function from the cells of   *)
(* the world rectangle to cell kinds (grid[y][x] in the source).           *)
(***************************************************************************)
EXTENDS Integers, Sequences, FiniteSets, TLC

VARIABLES
    MAIN_W,       \* aua_world.MAIN_W, a module global rewritten by build_world
    PAB_W,        \* aua_world.PAB_W, likewise
    CONFIG,       \* aua_setup.CONFIG: the widths and the four obstacle counts
    max_tries,    \* build_world's retry budget (its max_tries argument)
    pc,           \* where the running operation stands
    tries,        \* attempts of build_world's for-loop started so far
    grid,         \* the grid under construction, then the returned grid
    start,        \* the start chosen by the current attempt
    walls_main,   \* locals of the current attempt
    walls_pab,
    angry_main,
    placement,    \* the returned Placement record (NoPlacement before)
    pos,          \* topology query: the position asked about
    nbrs,         \* topology query: get_neighbors(grid, pos)
    path_arg,     \* fallback_run_with_metrics: the path passed to it
    path,         \* its local path, the list the for-loop walks; in a pipeline,
                  \* the pipeline's local path: the sanitized path of the agent
    path_i,       \* index in path of the element the for-loop takes next
    start_points, \* its start_points argument
    start_time,   \* its start_time argument
    score,        \* its locals
    timer,
    trace,
    algo,         \* the search strategy called: "hc", "shc" or "sa"
    max_steps,    \* its max_steps argument
    restarts,     \* stochastic_hill_climbing's restarts argument
    t0,           \* simulated_annealing's t0 argument
    loc,          \* the locals of the running search, by their names
    result,       \* what the search returned: [path, metrics]
    random_calls, \* calls made so far on the module-level generator random
    pipeline,     \* the pipeline at work: "controller" (main) or "batch" (run_one)
    raw,          \* the mapping handed to validate_algos
    algos,        \* its algos: the strategy of each agent id
    aid,          \* the agent id its for-loop has reached
    raw_path,     \* its local raw_path
    mtrace,       \* its local mtrace
    agents        \* its list agents

worldVars == <<CONFIG, max_tries, tries, start, walls_main, walls_pab,
               angry_main, placement>>
topoVars == <<pos, nbrs>>
simVars == <<path_arg, path, path_i, start_points, start_time, score, timer, trace>>
searchVars == <<algo, max_steps, restarts, t0, loc, result>>
runVars == <<pipeline, raw, algos, aid, raw_path, mtrace, agents>>
nonWorld == <<topoVars, simVars, searchVars, random_calls, runVars>>
vars == <<MAIN_W, PAB_W, pc, grid, worldVars, nonWorld>>

---------------------------------------------------------------------------
(* World geometry: aua_world.py lines 23-33.                               *)

MAIN_H == 7
PAB_H == 5
BRIDGE_LEN == 3
BRIDGE_ROW == 3
PAB_ROW_OFFSET == 2
DefaultMainW == 10
DefaultPabW == 7

WORLD_W == MAIN_W + BRIDGE_LEN + PAB_W
WORLD_H == MAIN_H

BRIDGE_ENTRANCE_MAIN == <<MAIN_W - 1, BRIDGE_ROW>>
BRIDGE_ENTRANCE_PAB == <<MAIN_W + BRIDGE_LEN, BRIDGE_ROW>>

(* Cell kinds: aua_world.py lines 38-43.                                   *)
EMPTY == 0
WALL == 1
BRIDGE == 2
ANGRY == 3
CHAIR == 4
OFFICE == 5

(* The widths the setup dialog admits: aua_setup.py lines 225 and 228.     *)
MinMainW == 7
MinPabW == 4

Cells == (0 .. WORLD_W - 1) \X (0 .. WORLD_H - 1)

pab_local_to_world(px, py) == <<MAIN_W + BRIDGE_LEN + px, PAB_ROW_OFFSET + py>>

all_main_cells == (0 .. MAIN_W - 1) \X (0 .. MAIN_H - 1)

all_pab_cells ==
    {pab_local_to_world(px, py) : px \in 0 .. PAB_W - 1, py \in 0 .. PAB_H - 1}

bridge_cells == {<<c, BRIDGE_ROW>> : c \in MAIN_W .. MAIN_W + BRIDGE_LEN - 1}

empty_world == [c \in Cells |-> EMPTY]

abs(n) == IF n < 0 THEN -n ELSE n

(* A variant of manhattan that measures columns only.                      *)
manhattan_columns(a, b) == abs(a[1] - b[1])

manhattan(a, b) == abs(a[1] - b[1]) + abs(a[2] - b[2])

---------------------------------------------------------------------------
(* Region topology: search_algorithms.py lines 14-79.                      *)

is_in_main_anywidth(x, y) == (0 <= x /\ x < WORLD_W) /\ (0 <= y /\ y < WORLD_H)

is_in_main(x, y) == (0 <= x /\ x < MAIN_W) /\ (0 <= y /\ y < WORLD_H)

is_in_bridge_anyrow(x, y) == MAIN_W <= x /\ x <= MAIN_W + BRIDGE_LEN - 1

is_in_bridge(x, y) ==
    (MAIN_W <= x /\ x <= MAIN_W + BRIDGE_LEN - 1) /\ (y = BRIDGE_ROW)

is_in_pab(x, y) ==
    LET pab_x_min == MAIN_W + BRIDGE_LEN
        pab_x_max == pab_x_min + PAB_W - 1
        pab_y_min == PAB_ROW_OFFSET
        pab_y_max == pab_y_min + PAB_H - 1
    IN  (pab_x_min <= x /\ x <= pab_x_max) /\ (pab_y_min <= y /\ y <= pab_y_max)

is_valid_region(x, y) == is_in_main(x, y) \/ is_in_bridge(x, y) \/ is_in_pab(x, y)

(* grid[y][x] raising (an index outside the grid) makes the answer False.  *)
is_walkable(g, x, y) ==
    /\ is_valid_region(x, y)
    /\ <<x, y>> \in DOMAIN g
    /\ g[<<x, y>>] # WALL

(* A variant of get_neighbors in which the bridge leads on to Pab but not  *)
(* back to Main.                                                           *)
get_neighbors_oneway(g, p) ==
    LET x == p[1]
        y == p[2]
        allowed(n) ==
            /\ is_walkable(g, n[1], n[2])
            /\ IF is_in_main(x, y)
               THEN is_in_main(n[1], n[2]) \/ is_in_bridge(n[1], n[2])
               ELSE IF is_in_pab(x, y)
               THEN is_in_pab(n[1], n[2]) \/ is_in_bridge(n[1], n[2])
               ELSE /\ is_in_bridge(x, y)
                    /\ \/ is_in_pab(n[1], n[2])
                       \/ is_in_bridge(n[1], n[2])
    IN  SelectSeq(<<<<x + 1, y>>, <<x - 1, y>>, <<x, y + 1>>, <<x, y - 1>>>>, allowed)

(* The neighbours in the order the source appends them.                    *)
get_neighbors(g, p) ==
    LET x == p[1]
        y == p[2]
        allowed(n) ==
            /\ is_walkable(g, n[1], n[2])
            /\ IF is_in_main(x, y)
               THEN is_in_main(n[1], n[2]) \/ is_in_bridge(n[1], n[2])
               ELSE IF is_in_pab(x, y)
               THEN is_in_pab(n[1], n[2]) \/ is_in_bridge(n[1], n[2])
               ELSE /\ is_in_bridge(x, y)
                    /\ \/ is_in_main(n[1], n[2])
                       \/ is_in_pab(n[1], n[2])
                       \/ is_in_bridge(n[1], n[2])
    IN  SelectSeq(<<<<x + 1, y>>, <<x - 1, y>>, <<x, y + 1>>, <<x, y - 1>>>>, allowed)

Range(s) == {s[i] : i \in DOMAIN s}

---------------------------------------------------------------------------
(* Reachability check of the generator: aua_world.py lines 87-113.         *)

neighbors4(p) ==
    {n \in {<<p[1] + 1, p[2]>>, <<p[1] - 1, p[2]>>,
            <<p[1], p[2] + 1>>, <<p[1], p[2] - 1>>} :
        (0 <= n[1] /\ n[1] < WORLD_W) /\ (0 <= n[2] /\ n[2] < WORLD_H)}

(* The queue is explored level by level: `frontier` holds the cells of the *)
(* current level, `seen` every cell queued so far.                         *)
RECURSIVE bfs_search(_, _, _, _, _)
bfs_search(g, seen, frontier, goal, blocked) ==
    IF goal \in frontier THEN TRUE
    ELSE IF frontier = {} THEN FALSE
    ELSE \E new \in {{n \in UNION {neighbors4(p) : p \in frontier} :
                            n \notin seen /\ g[n] \notin blocked}} :
             \E seen2 \in {seen \cup new} :
                 bfs_search(g, seen2, new, goal, blocked)

bfs_path_exists(g, s, goal, blocked) == bfs_search(g, {s}, {s}, goal, blocked)

---------------------------------------------------------------------------
(* World generator: aua_world.py lines 116-328.                            *)
(*                                                                         *)
(* random.Random(seed) is a source of nondeterministic draws.  The draws   *)
(* explored are those that land in a window of cells: the last MainDraw    *)
(* cells of main_cells and the last PabDraw cells of pab_cells, in the     *)
(* order of the two lists (column by column, so the window holds the       *)
(* columns nearest the bridge in Main and the far columns of Pab).  Pool   *)
(* sizes and acceptance checks are computed on the full pools.             *)

MainDraw == 5
PabDraw == 10
MaxTries == 2

DrawWindow ==
    {c \in all_main_cells : c[1] * MAIN_H + c[2] >= MAIN_W * MAIN_H - MainDraw}
        \cup {c \in all_pab_cells :
                (c[1] - MAIN_W - BRIDGE_LEN) * PAB_H + (c[2] - PAB_ROW_OFFSET)
                    >= PAB_W * PAB_H - PabDraw}

Drawn(S) == S \cap DrawWindow

RECURSIVE KSubsets(_, _)
KSubsets(S, k) ==
    IF k = 0 THEN {{}}
    ELSE IF Cardinality(S) < k THEN {}
    ELSE LET x == CHOOSE e \in S : TRUE
         IN  KSubsets(S \ {x}, k) \cup {T \cup {x} : T \in KSubsets(S \ {x}, k - 1)}

(* sample_unique raises when the pool is smaller than k ...                *)
sample_raises(candidates, k, exclude) == Cardinality(candidates \ exclude) < k

(* ... and otherwise returns the first k cells of the shuffled pool: any   *)
(* k-element subset of it.                                                 *)
sample_unique(candidates, k, exclude) == KSubsets(Drawn(candidates \ exclude), k)

NoPos == <<-1, -1>>

NoPlacement ==
    [start |-> NoPos, walls_main |-> {}, walls_pab |-> {}, angry_main |-> {},
     angry_pab |-> {}, chair |-> NoPos, office |-> NoPos, bridge |-> {}]

forbidden_bridge == bridge_cells \cup {BRIDGE_ENTRANCE_MAIN, BRIDGE_ENTRANCE_PAB}

start_candidates == all_main_cells \ forbidden_bridge

(* A variant of corridor_rows that reserves every row of Main.             *)
corridor_rows_all(y0) == 0 .. MAIN_H - 1

(* Lines 184-197: the start's row and the row below it (the row above when *)
(* the start is on the last row), from the start's column to Main's edge.  *)
corridor_rows(y0) ==
    {y0} \cup (IF y0 + 1 < MAIN_H THEN {y0 + 1}
               ELSE IF y0 - 1 >= 0 THEN {y0 - 1} ELSE {})

(* A variant of safe_corridor that reserves the start's row alone.         *)
safe_corridor_onerow(s) == {<<x, s[2]>> : x \in s[1] .. MAIN_W - 1}

safe_corridor(s) ==
    {<<x, ry>> : x \in s[1] .. MAIN_W - 1,
                 ry \in {r \in corridor_rows(s[2]) : 0 <= r /\ r < MAIN_H}}

(* Line 205: the cells closed to the walls of Main.                        *)
walls_main_exclude(s) == forbidden_bridge \cup {s} \cup safe_corridor(s)

(* A variant of occupied_main that forgets the walls already placed.       *)
occupied_main_nowalls(wm, s) == {s} \cup bridge_cells \cup {BRIDGE_ENTRANCE_MAIN}

(* A variant of occupied_main that keeps the hazards off the start alone.  *)
occupied_main_startonly(wm, s) == {s}

(* Line 234.                                                               *)
occupied_main(wm, s) == wm \cup {s} \cup bridge_cells \cup {BRIDGE_ENTRANCE_MAIN}

Paint(g, S, kind) == [c \in DOMAIN g |-> IF c \in S THEN kind ELSE g[c]]

(* Lines 251-257.                                                          *)
adj_bad(g, wx, wy) ==
    \E n \in {<<wx + 1, wy>>, <<wx - 1, wy>>, <<wx, wy + 1>>, <<wx, wy - 1>>} :
        /\ (0 <= n[1] /\ n[1] < WORLD_W) /\ (0 <= n[2] /\ n[2] < WORLD_H)
        /\ g[n] \in {WALL, ANGRY}

(* Lines 259-263.                                                          *)
pab_candidates(wp) ==
    LET occupied_pab == wp \cup bridge_cells \cup {BRIDGE_ENTRANCE_PAB}
        pab_entrance_x == MAIN_W + BRIDGE_LEN
    IN  {p \in all_pab_cells : p \notin occupied_pab /\ p[1] # pab_entrance_x}

(* Lines 266-274: the first shuffled candidate that is EMPTY and has no    *)
(* WALL or ANGRY neighbour; any such candidate can come first.             *)
office_candidates(g, wp) ==
    {p \in pab_candidates(wp) : g[p] = EMPTY /\ ~adj_bad(g, p[1], p[2])}

(* Lines 281-284.                                                          *)
chair_candidates(g, wp, office) ==
    {p \in pab_candidates(wp) : p # office /\ g[p] = EMPTY}

(* A variant of pab_free that lets a hazard stand next to the office.      *)
pab_free_anywhere(g, wp, office, chair) ==
    {p \in pab_candidates(wp) : p \notin {office, chair} /\ g[p] = EMPTY}

(* Lines 292-297.                                                          *)
pab_free(g, wp, office, chair) ==
    {p \in pab_candidates(wp) :
        /\ p \notin {office, chair}
        /\ g[p] = EMPTY
        /\ abs(p[1] - office[1]) + abs(p[2] - office[2]) # 1}

(* Lines 311-314.                                                          *)
path_checks(g, s, office) ==
    /\ bfs_path_exists(g, s, BRIDGE_ENTRANCE_MAIN, {WALL, CHAIR, ANGRY})
    /\ bfs_path_exists(g, s, office, {WALL, CHAIR, ANGRY})

(* `continue`: the attempt is abandoned and the loop goes on.              *)
Continue ==
    /\ pc' = "attempt"
    /\ grid' = empty_world
    /\ start' = NoPos
    /\ walls_main' = {}
    /\ walls_pab' = {}
    /\ angry_main' = {}
    /\ UNCHANGED <<MAIN_W, PAB_W, CONFIG, max_tries, tries, placement, nonWorld>>

(* Lines 146-169: the geometry globals are rewritten from CONFIG.          *)
BuildWorld ==
    /\ pc = "idle"
    /\ MAIN_W' = CONFIG.main_w
    /\ PAB_W' = CONFIG.pab_w
    /\ pc' = "attempt"
    /\ tries' = 0
    /\ grid' = [c \in (0 .. CONFIG.main_w + BRIDGE_LEN + CONFIG.pab_w - 1)
                        \X (0 .. MAIN_H - 1) |-> EMPTY]
    /\ UNCHANGED <<CONFIG, max_tries, start, walls_main, walls_pab, angry_main,
                   placement, nonWorld>>

(* Lines 171-197: a new attempt; the bridge is painted, a start chosen.    *)
AttemptStart ==
    /\ pc = "attempt"
    /\ tries < max_tries
    /\ tries' = tries + 1
    /\ grid' = Paint(empty_world, bridge_cells, BRIDGE)
    /\ IF start_candidates = {}
       THEN /\ pc' = "raised"
            /\ start' = NoPos
       ELSE /\ pc' = "walls"
            /\ start' \in Drawn(start_candidates)
    /\ UNCHANGED <<MAIN_W, PAB_W, CONFIG, max_tries, walls_main, walls_pab,
                   angry_main, placement, nonWorld>>

(* Lines 199-231: walls of Main, walls of Pab, both entrances open.        *)
AttemptWalls ==
    /\ pc = "walls"
    /\ IF sample_raises(all_main_cells, CONFIG.walls_main, walls_main_exclude(start))
          \/ sample_raises(all_pab_cells, CONFIG.walls_pab, forbidden_bridge)
       THEN Continue
       ELSE \E wm \in sample_unique(all_main_cells, CONFIG.walls_main,
                                    walls_main_exclude(start)),
               wp \in sample_unique(all_pab_cells, CONFIG.walls_pab, forbidden_bridge) :
                    \E g \in {Paint(Paint(grid, wm, WALL), wp, WALL)} :
                        IF g[BRIDGE_ENTRANCE_MAIN] = WALL \/ g[BRIDGE_ENTRANCE_PAB] = WALL
                        THEN Continue
                        ELSE /\ walls_main' = wm
                             /\ walls_pab' = wp
                             /\ grid' = g
                             /\ pc' = "angry_main"
                             /\ UNCHANGED <<MAIN_W, PAB_W, CONFIG, max_tries, tries,
                                            start, angry_main, placement, nonWorld>>

(* Lines 233-246: hazards of Main.                                         *)
AttemptAngryMain ==
    /\ pc = "angry_main"
    /\ LET excl == occupied_main(walls_main, start) \cup safe_corridor(start)
       IN  IF sample_raises(all_main_cells, CONFIG.angry_main, excl)
           THEN Continue
           ELSE \E am \in sample_unique(all_main_cells, CONFIG.angry_main, excl) :
                    /\ angry_main' = am
                    /\ grid' = Paint(grid, am, ANGRY)
                    /\ pc' = "pab"
                    /\ UNCHANGED <<MAIN_W, PAB_W, CONFIG, max_tries, tries, start,
                                   walls_main, walls_pab, placement, nonWorld>>

(* Lines 248-326: office, chair and hazards of Pab, the two reachability   *)
(* checks, and the return.                                                 *)
AttemptPab ==
    /\ pc = "pab"
    /\ IF office_candidates(grid, walls_pab) = {}
       THEN Continue
       ELSE \E chosen_office \in Drawn(office_candidates(grid, walls_pab)) :
         IF chair_candidates(grid, walls_pab, chosen_office) = {}
         THEN Continue
         ELSE \E chosen_chair \in Drawn(chair_candidates(grid, walls_pab, chosen_office)) :
           LET free == pab_free(grid, walls_pab, chosen_office, chosen_chair)
           IN  IF Cardinality(free) < CONFIG.angry_pab
               THEN Continue
               ELSE \E chosen_angry_pab \in KSubsets(Drawn(free), CONFIG.angry_pab) :
                 \E g \in {Paint(Paint(Paint(grid, {chosen_office}, OFFICE),
                                      {chosen_chair}, CHAIR),
                                chosen_angry_pab, ANGRY)} :
                     IF ~path_checks(g, start, chosen_office)
                     THEN Continue
                     ELSE /\ grid' = g
                          /\ placement' =
                                 [start |-> start,
                                  walls_main |-> walls_main,
                                  walls_pab |-> walls_pab,
                                  angry_main |-> angry_main,
                                  angry_pab |-> chosen_angry_pab,
                                  chair |-> chosen_chair,
                                  office |-> chosen_office,
                                  bridge |-> bridge_cells]
                          /\ pc' = "returned"
                          /\ UNCHANGED <<MAIN_W, PAB_W, CONFIG, max_tries, tries,
                                         start, walls_main, walls_pab, angry_main,
                                         nonWorld>>

(* A variant of RaiseExhausted that falls out of the loop and returns what *)
(* the last attempt left behind.                                           *)
RaiseExhausted_returns ==
    /\ pc = "attempt"
    /\ tries >= max_tries
    /\ pc' = "returned"
    /\ UNCHANGED <<MAIN_W, PAB_W, grid, worldVars, nonWorld>>

(* Line 328: the loop ran out of attempts.                                 *)
RaiseExhausted ==
    /\ pc = "attempt"
    /\ tries >= max_tries
    /\ pc' = "raised"
    /\ UNCHANGED <<MAIN_W, PAB_W, grid, worldVars, nonWorld>>

(* The configurations explored, all within the setup dialog's bounds.      *)
Configs ==
    {[main_w |-> MinMainW, pab_w |-> MinPabW,
      walls_main |-> 1, walls_pab |-> 0, angry_main |-> 1, angry_pab |-> 0],
     [main_w |-> MinMainW, pab_w |-> MinPabW,
      walls_main |-> 0, walls_pab |-> 2, angry_main |-> 0, angry_pab |-> 0],
     [main_w |-> MinMainW, pab_w |-> MinPabW,
      walls_main |-> 0, walls_pab |-> 0, angry_main |-> 0, angry_pab |-> 1]}

(* Nothing asked of the topology, nothing simulated.                       *)
TopoIdle == pos = NoPos /\ nbrs = <<>>

RunIdle ==
    /\ pipeline = "none"
    /\ raw = <<>>
    /\ algos = <<>>
    /\ aid = 0
    /\ raw_path = <<>>
    /\ mtrace = <<>>
    /\ agents = <<>>

SimIdle ==
    /\ path_arg = <<>>
    /\ path = <<>>
    /\ path_i = 1
    /\ start_points = 0
    /\ start_time = 0
    /\ score = 0
    /\ timer = 0
    /\ trace = <<>>

NoResult == [path |-> <<>>, metrics |-> [steps |-> 0]]

SearchIdle ==
    /\ algo = "none"
    /\ max_steps = 0
    /\ restarts = 0
    /\ t0 = 0
    /\ loc = [cur |-> NoPos]
    /\ result = NoResult
    /\ random_calls = 0

InitWorld ==
    /\ MAIN_W = DefaultMainW
    /\ PAB_W = DefaultPabW
    /\ CONFIG \in Configs
    /\ max_tries = MaxTries
    /\ pc = "idle"
    /\ tries = 0
    /\ grid = empty_world
    /\ start = NoPos
    /\ walls_main = {}
    /\ walls_pab = {}
    /\ angry_main = {}
    /\ placement = NoPlacement
    /\ TopoIdle
    /\ RunIdle
    /\ SimIdle
    /\ SearchIdle

NextWorld ==
    \/ BuildWorld
    \/ AttemptStart
    \/ AttemptWalls
    \/ AttemptAngryMain
    \/ AttemptPab
    \/ RaiseExhausted

SpecWorld == InitWorld /\ [][NextWorld]_vars

---------------------------------------------------------------------------
(* Properties of the returned world.                                       *)

(* The cells an agent can reach from s by legal moves (get_neighbors)      *)
(* without stepping on a Wall, Chair or Angry cell.                        *)
RECURSIVE legal_reach(_, _, _)
legal_reach(g, seen, frontier) ==
    IF frontier = {} THEN seen
    ELSE LET new == {n \in UNION {Range(get_neighbors(g, p)) : p \in frontier} :
                        n \notin seen /\ g[n] \notin {WALL, CHAIR, ANGRY}}
         IN  legal_reach(g, seen \cup new, new)

LegalRoute(g, s, goal) == goal \in legal_reach(g, {s}, {s})

(* C1: a world is returned only if the start reaches both the Main bridge  *)
(* entrance and the Office by moves that avoid Wall, Chair and Angry       *)
(* cells; when no layout is found the generator raises and returns none.   *)
C1_ReturnedWorldSolvable ==
    /\ pc = "returned" =>
           /\ LegalRoute(grid, placement.start, BRIDGE_ENTRANCE_MAIN)
           /\ LegalRoute(grid, placement.start, placement.office)
    /\ pc = "raised" => placement = NoPlacement

PlacementSets(pl) ==
    <<{pl.start}, pl.walls_main, pl.walls_pab, pl.angry_main, pl.angry_pab,
      {pl.chair}, {pl.office}, pl.bridge>>

(* C5: in a returned placement the start, the walls and hazards of Main,   *)
(* the walls and hazards of Pab, the chair, the office and the bridge are  *)
(* pairwise disjoint; the start and Main's walls and hazards lie in Main,  *)
(* the chair, the office and Pab's walls and hazards lie in Pab.           *)
C5_PlacementDisjoint ==
    pc = "returned" =>
        /\ \A i, j \in 1 .. 8 :
               i < j => PlacementSets(placement)[i] \cap PlacementSets(placement)[j] = {}
        /\ {placement.start} \cup placement.walls_main \cup placement.angry_main
               \subseteq all_main_cells
        /\ {placement.chair, placement.office} \cup placement.walls_pab
               \cup placement.angry_pab \subseteq all_pab_cells

C5_Witness ==
    /\ pc = "returned"
    /\ placement.walls_main # {}
    /\ placement.angry_main # {}

(* What an attempt must have passed before its world is returned: every    *)
(* obstacle set has the size CONFIG asks for (there were enough free cells *)
(* to sample), both bridge entrances are open, an office and a chair were  *)
(* found and painted, and the two breadth-first checks succeed.            *)
PassedAcceptance ==
    /\ Cardinality(placement.walls_main) = CONFIG.walls_main
    /\ Cardinality(placement.walls_pab) = CONFIG.walls_pab
    /\ Cardinality(placement.angry_main) = CONFIG.angry_main
    /\ Cardinality(placement.angry_pab) = CONFIG.angry_pab
    /\ grid[BRIDGE_ENTRANCE_MAIN] # WALL
    /\ grid[BRIDGE_ENTRANCE_PAB] # WALL
    /\ placement.office \in DOMAIN grid /\ grid[placement.office] = OFFICE
    /\ placement.chair \in DOMAIN grid /\ grid[placement.chair] = CHAIR
    /\ bfs_path_exists(grid, placement.start, BRIDGE_ENTRANCE_MAIN, {WALL, CHAIR, ANGRY})
    /\ bfs_path_exists(grid, placement.start, placement.office, {WALL, CHAIR, ANGRY})

(* C14: build_world starts at most max_tries attempts; a world is returned *)
(* only by an attempt that passed every acceptance check; when max_tries   *)
(* attempts have been rejected the next step raises the generation error   *)
(* and nothing is returned.                                                *)
C14_BoundedAttempts ==
    /\ [](/\ tries <= max_tries
          /\ pc = "returned" => (tries >= 1 /\ PassedAcceptance)
          /\ pc = "raised" => placement = NoPlacement)
    /\ [][(pc = "attempt" /\ tries >= max_tries) => pc' = "raised"]_vars

C14_Witness ==
    /\ pc = "returned"
    /\ tries = max_tries
    /\ tries > 1

(* C20: in a returned world the office lies in Pab, off the column of      *)
(* Pab's bridge entrance, and no cell at Manhattan distance 1 of it is a   *)
(* Wall or an Angry cell, on the grid and in the placement alike.          *)
C20_OfficeClear ==
    pc = "returned" =>
        LET o == placement.office
            beside == {c \in Cells : abs(c[1] - o[1]) + abs(c[2] - o[2]) = 1}
        IN  /\ o \in all_pab_cells
            /\ o[1] # MAIN_W + BRIDGE_LEN
            /\ \A c \in beside :
                   /\ grid[c] \notin {WALL, ANGRY}
                   /\ c \notin placement.walls_main \cup placement.walls_pab
                          \cup placement.angry_main \cup placement.angry_pab

C20_Witness ==
    /\ pc = "returned"
    /\ \E a \in placement.angry_pab :
           abs(a[1] - placement.office[1]) + abs(a[2] - placement.office[2]) = 2

(* C21: in a returned world no cell (x, r) with start.x <= x < MAIN_W and  *)
(* r the start's row or the row below it (the row above it when the start  *)
(* is on the last row) is a Wall or an Angry cell.                         *)
C21_CorridorClear ==
    pc = "returned" =>
        LET s == placement.start
            other == IF s[2] = MAIN_H - 1 THEN s[2] - 1 ELSE s[2] + 1
        IN  \A x \in s[1] .. MAIN_W - 1 : \A r \in {s[2], other} :
                /\ grid[<<x, r>>] \notin {WALL, ANGRY}
                /\ <<x, r>> \notin placement.walls_main \cup placement.angry_main

C21_Witness ==
    /\ pc = "returned"
    /\ placement.start[2] = MAIN_H - 1
    /\ placement.walls_main # {}
    /\ placement.angry_main # {}

(* The kind of cell a placement prescribes.                                *)
PlacedKind(pl, c) ==
    IF c \in pl.walls_main \cup pl.walls_pab THEN WALL
    ELSE IF c \in pl.angry_main \cup pl.angry_pab THEN ANGRY
    ELSE IF c = pl.chair THEN CHAIR
    ELSE IF c = pl.office THEN OFFICE
    ELSE IF c \in pl.bridge THEN BRIDGE
    ELSE EMPTY

(* C30: the returned grid and placement agree cell for cell: a cell is     *)
(* WALL exactly when it is in walls_main or walls_pab, ANGRY exactly when  *)
(* in angry_main or angry_pab, CHAIR exactly when it is the chair, OFFICE  *)
(* exactly when it is the office, BRIDGE exactly when in bridge, and EMPTY *)
(* otherwise; the start and both bridge entrances are EMPTY; the four wall *)
(* and hazard sets have the configured sizes.                              *)
C30_GridAgreesWithPlacement ==
    pc = "returned" =>
        /\ DOMAIN grid = Cells
        /\ \A c \in Cells :
               /\ grid[c] = WALL <=> c \in placement.walls_main \cup placement.walls_pab
               /\ grid[c] = ANGRY <=> c \in placement.angry_main \cup placement.angry_pab
               /\ grid[c] = CHAIR <=> c = placement.chair
               /\ grid[c] = OFFICE <=> c = placement.office
               /\ grid[c] = BRIDGE <=> c \in placement.bridge
               /\ grid[c] = PlacedKind(placement, c)
        /\ grid[placement.start] = EMPTY
        /\ grid[BRIDGE_ENTRANCE_MAIN] = EMPTY
        /\ grid[BRIDGE_ENTRANCE_PAB] = EMPTY
        /\ Cardinality(placement.walls_main) = CONFIG.walls_main
        /\ Cardinality(placement.walls_pab) = CONFIG.walls_pab
        /\ Cardinality(placement.angry_main) = CONFIG.angry_main
        /\ Cardinality(placement.angry_pab) = CONFIG.angry_pab

C30_Witness ==
    /\ pc = "returned"
    /\ Cardinality(placement.walls_pab) = 2
    /\ \A c \in placement.walls_pab : grid[c] = WALL
    /\ grid[placement.office] = OFFICE
    /\ grid[placement.chair] = CHAIR

---------------------------------------------------------------------------
(* Region topology: get_neighbors asked about every position of the world  *)
(* rectangle and of a margin of one cell around it, on grids that carry    *)
(* the bridge and up to MaxTopoWalls walls next to the bridge.             *)

MaxTopoWalls == 1

Geometries == {<<MinMainW, MinPabW>>, <<DefaultMainW, DefaultPabW>>}

TopoWallCells ==
    {c \in (all_main_cells \cup all_pab_cells) \ forbidden_bridge :
        /\ MAIN_W - 2 <= c[1] /\ c[1] <= MAIN_W + BRIDGE_LEN + 1
        /\ BRIDGE_ROW - 1 <= c[2] /\ c[2] <= BRIDGE_ROW + 1}

TopoWalls == UNION {KSubsets(TopoWallCells, k) : k \in 0 .. MaxTopoWalls}

Probes == (-1 .. WORLD_W) \X (-1 .. WORLD_H)

InitTopo ==
    /\ \E geo \in Geometries : MAIN_W = geo[1] /\ PAB_W = geo[2]
    /\ CONFIG = [main_w |-> MAIN_W, pab_w |-> PAB_W, walls_main |-> 0,
                 walls_pab |-> 0, angry_main |-> 0, angry_pab |-> 0]
    /\ max_tries = MaxTries
    /\ pc = "topology"
    /\ tries = 0
    /\ \E W \in TopoWalls :
           grid = Paint(Paint(empty_world, bridge_cells, BRIDGE), W, WALL)
    /\ start = NoPos
    /\ walls_main = {}
    /\ walls_pab = {}
    /\ angry_main = {}
    /\ placement = NoPlacement
    /\ TopoIdle
    /\ RunIdle
    /\ SimIdle
    /\ SearchIdle

Query ==
    /\ pc = "topology"
    /\ \E p \in Probes :
           /\ pos' = p
           /\ nbrs' = get_neighbors(grid, p)
    /\ pc' = "answered"
    /\ UNCHANGED <<MAIN_W, PAB_W, grid, worldVars, simVars, searchVars, random_calls,
                   runVars>>

NextTopo == Query

SpecTopo == InitTopo /\ [][NextTopo]_vars

(* C3: no single move joins Main and Pab: a neighbour of a Main cell is in *)
(* Main or on the Bridge, a neighbour of a Pab cell is in Pab or on the    *)
(* Bridge, so a route between the two buildings passes over the Bridge.    *)
C3_NoMainPabStep ==
    pc = "answered" => \A i \in 1 .. Len(nbrs) :
        /\ is_in_main(pos[1], pos[2]) =>
               /\ ~is_in_pab(nbrs[i][1], nbrs[i][2])
               /\ nbrs[i] \in all_main_cells \cup bridge_cells
        /\ is_in_pab(pos[1], pos[2]) =>
               /\ ~is_in_main(nbrs[i][1], nbrs[i][2])
               /\ nbrs[i] \in all_pab_cells \cup bridge_cells

C3_Witness ==
    /\ pc = "answered"
    /\ is_in_main(pos[1], pos[2])
    /\ \E i \in 1 .. Len(nbrs) : nbrs[i] \in bridge_cells
    /\ \E i \in 1 .. Len(nbrs) : nbrs[i] \in all_main_cells

(* C4: the Bridge is entered from Main only at BRIDGE_ENTRANCE_MAIN and    *)
(* from Pab only at BRIDGE_ENTRANCE_PAB; the neighbours of a Bridge cell   *)
(* are the Bridge cells beside it and the two entrances at its ends; no    *)
(* neighbour lies outside the three zones.                                 *)
C4_BridgeOnlyAtEntrances ==
    pc = "answered" => \A i \in 1 .. Len(nbrs) :
        /\ nbrs[i] \in all_main_cells \cup bridge_cells \cup all_pab_cells
        /\ (pos \in all_main_cells /\ nbrs[i] \in bridge_cells)
               => pos = BRIDGE_ENTRANCE_MAIN
        /\ (pos \in all_pab_cells /\ nbrs[i] \in bridge_cells)
               => pos = BRIDGE_ENTRANCE_PAB
        /\ pos \in bridge_cells =>
               /\ nbrs[i][2] = BRIDGE_ROW
               /\ nbrs[i] \in bridge_cells \cup {BRIDGE_ENTRANCE_MAIN, BRIDGE_ENTRANCE_PAB}

C4_Witness ==
    /\ pc = "answered"
    /\ pos = BRIDGE_ENTRANCE_PAB
    /\ \E i \in 1 .. Len(nbrs) : nbrs[i] \in bridge_cells

---------------------------------------------------------------------------
(* C28: legal moves are symmetric: for two cells inside the zones that are *)
(* not walls, the second is among the neighbours of the first exactly when *)
(* the first is among the neighbours of the second.                        *)
C28_MovesSymmetric ==
    pc = "answered" =>
        \A q \in Cells :
            (/\ is_valid_region(pos[1], pos[2])
             /\ is_valid_region(q[1], q[2])
             /\ grid[pos] # WALL
             /\ grid[q] # WALL)
                => (q \in Range(nbrs) <=> pos \in Range(get_neighbors(grid, q)))

C28_Witness ==
    /\ pc = "answered"
    /\ pos = <<MAIN_W, BRIDGE_ROW>>
    /\ BRIDGE_ENTRANCE_MAIN \in Range(nbrs)
    /\ pos \in Range(get_neighbors(grid, BRIDGE_ENTRANCE_MAIN))
    /\ \E c \in Cells : grid[c] = WALL

(* One attempt of build_world as a function of what it draws: the start s, *)
(* the walls wm and wp, the hazards am and ap, the office o, the chair c.  *)

BaseGrid(wm, wp, am) ==
    [cell \in Cells |->
        IF cell \in am THEN ANGRY
        ELSE IF cell \in wm \cup wp THEN WALL
        ELSE IF cell \in bridge_cells THEN BRIDGE ELSE EMPTY]

world_grid(s, wm, wp, am, o, c, ap) ==
    [cell \in Cells |->
        IF cell \in ap THEN ANGRY
        ELSE IF cell = c THEN CHAIR
        ELSE IF cell = o THEN OFFICE
        ELSE IF cell \in am THEN ANGRY
        ELSE IF cell \in wm \cup wp THEN WALL
        ELSE IF cell \in bridge_cells THEN BRIDGE ELSE EMPTY]

(* The attempt reaches the return statement with these draws.              *)
world_accepted(s, wm, wp, am, o, c, ap) ==
    /\ s \in start_candidates
    /\ wm \subseteq all_main_cells \ walls_main_exclude(s)
    /\ wp \subseteq all_pab_cells \ forbidden_bridge
    /\ am \subseteq all_main_cells \ (occupied_main(wm, s) \cup safe_corridor(s))
    /\ \E g \in {BaseGrid(wm, wp, am)} :
           /\ o \in office_candidates(g, wp)
           /\ c \in chair_candidates(g, wp, o)
           /\ ap \subseteq pab_free(g, wp, o, c)
    /\ \E g \in {world_grid(s, wm, wp, am, o, c, ap)} : path_checks(g, s, o)

world_placement(s, wm, wp, am, o, c, ap) ==
    [start |-> s, walls_main |-> wm, walls_pab |-> wp, angry_main |-> am,
     angry_pab |-> ap, chair |-> c, office |-> o, bridge |-> bridge_cells]

(* The draws of the worlds the simulator and the searches are run on, in   *)
(* the smallest geometry the setup dialog accepts.                         *)
SampleDraws ==
    {<<<<5, 2>>, {<<4, 4>>}, {<<13, 6>>}, {<<6, 1>>}, <<11, 3>>, <<12, 5>>, {<<13, 2>>}>>}

(* The state after build_world returned the placement of draws d, with g   *)
(* as the grid at hand.                                                    *)
WorldGiven(d, g) ==
    /\ MAIN_W = MinMainW
    /\ PAB_W = MinPabW
    /\ CONFIG = [main_w |-> MAIN_W, pab_w |-> PAB_W,
                 walls_main |-> Cardinality(d[2]), walls_pab |-> Cardinality(d[3]),
                 angry_main |-> Cardinality(d[4]), angry_pab |-> Cardinality(d[7])]
    /\ max_tries = MaxTries
    /\ tries = 1
    /\ world_accepted(d[1], d[2], d[3], d[4], d[5], d[6], d[7])
    /\ grid = g
    /\ placement = world_placement(d[1], d[2], d[3], d[4], d[5], d[6], d[7])
    /\ start = d[1]
    /\ walls_main = d[2]
    /\ walls_pab = d[3]
    /\ angry_main = d[4]

(* The state right after build_world returned the world of draws d.        *)
WorldReturned(d) == WorldGiven(d, world_grid(d[1], d[2], d[3], d[4], d[5], d[6], d[7]))

---------------------------------------------------------------------------
(* Trace simulator: controller.fallback_run_with_metrics, lines 82-132.    *)

MaxPathLen == 3

max0(n) == IF n < 0 THEN 0 ELSE n

(* Line 105: the element lies inside the grid.                             *)
in_grid(g, x, y) == ~(y < 0 \/ y >= WORLD_H \/ x < 0 \/ x >= WORLD_W) /\ <<x, y>> \in DOMAIN g

(* A variant of cell_effect whose hazard penalty is not clamped at zero.   *)
cell_effect_unclamped(cell, sc, tm) ==
    [score |-> IF cell = CHAIR THEN 0
               ELSE IF cell = ANGRY THEN max0(sc - 1) - 150 ELSE max0(sc - 1),
     timer |-> max0(tm - 1),
     reason |-> IF cell = OFFICE THEN "goal"
                ELSE IF cell = CHAIR THEN "chair"
                ELSE IF cell = ANGRY THEN "angry" ELSE "normal"]

(* A variant of cell_effect in which the chair leaves the score alone.     *)
cell_effect_chairkeeps(cell, sc, tm) ==
    [score |-> IF cell = ANGRY THEN max0(max0(sc - 1) - 150) ELSE max0(sc - 1),
     timer |-> max0(tm - 1),
     reason |-> IF cell = OFFICE THEN "goal"
                ELSE IF cell = CHAIR THEN "chair"
                ELSE IF cell = ANGRY THEN "angry" ELSE "normal"]

(* A variant of cell_effect in which a step costs no time.                 *)
cell_effect_freetime(cell, sc, tm) ==
    [score |-> IF cell = CHAIR THEN 0
               ELSE IF cell = ANGRY THEN max0(max0(sc - 1) - 150) ELSE max0(sc - 1),
     timer |-> tm,
     reason |-> IF cell = OFFICE THEN "goal"
                ELSE IF cell = CHAIR THEN "chair"
                ELSE IF cell = ANGRY THEN "angry" ELSE "normal"]

(* Lines 108-120: the cost of the step, then the effect of the cell.       *)
cell_effect(cell, sc, tm) ==
    LET s1 == max0(sc - 1)
        t1 == max0(tm - 1)
        s2 == IF cell = ANGRY THEN max0(s1 - 150) ELSE s1
        r2 == IF cell = ANGRY THEN "angry" ELSE "normal"
        s3 == IF cell = CHAIR THEN 0 ELSE s2
        r3 == IF cell = CHAIR THEN "chair" ELSE r2
        r4 == IF cell = OFFICE THEN "goal" ELSE r3
    IN  [score |-> s3, timer |-> t1, reason |-> r4]

(* A variant of stops that does not look at the timer.                     *)
stops_ignoring_timer(reason, sc, tm) == reason \in {"chair", "goal"} \/ sc <= 0

(* Line 124: the loop breaks after this record.                            *)
stops(reason, sc, tm) == reason \in {"chair", "goal"} \/ sc <= 0 \/ tm <= 0

(* Lines 93-99.                                                            *)
SimCall ==
    /\ pc = "sim_call"
    /\ trace' = <<>>
    /\ score' = start_points
    /\ timer' = start_time
    /\ path' = IF path_arg = <<>> THEN <<placement.start>> ELSE path_arg
    /\ path_i' = 1
    /\ pc' = "sim_loop"
    /\ UNCHANGED <<MAIN_W, PAB_W, grid, worldVars, topoVars, searchVars, random_calls,
                   runVars, path_arg,
                   start_points, start_time>>

(* Lines 101-126: one iteration of the for-loop.                           *)
SimStep ==
    /\ pc = "sim_loop"
    /\ path_i <= Len(path)
    /\ LET p == path[path_i]
       IN  IF ~in_grid(grid, p[1], p[2])
           THEN /\ path_i' = path_i + 1
                /\ UNCHANGED <<pc, score, timer, trace>>
           ELSE LET e == cell_effect(grid[p], score, timer)
                IN  /\ score' = e.score
                    /\ timer' = e.timer
                    /\ trace' = Append(trace, [pos |-> p, score |-> e.score,
                                               timer |-> e.timer, reason |-> e.reason])
                    /\ IF stops(e.reason, e.score, e.timer)
                       THEN pc' = "sim_end" /\ path_i' = path_i
                       ELSE pc' = "sim_loop" /\ path_i' = path_i + 1
    /\ UNCHANGED <<MAIN_W, PAB_W, grid, worldVars, topoVars, searchVars, random_calls,
                   runVars, path_arg, path,
                   start_points, start_time>>

(* Lines 128-132: the loop is over; an empty trace gets the record "done". *)
SimReturn ==
    /\ \/ pc = "sim_loop" /\ path_i > Len(path)
       \/ pc = "sim_end"
    /\ trace' = IF trace = <<>>
                THEN <<[pos |-> placement.start, score |-> start_points,
                        timer |-> start_time, reason |-> "done"]>>
                ELSE trace
    /\ pc' = "sim_returned"
    /\ UNCHANGED <<MAIN_W, PAB_W, grid, worldVars, topoVars, searchVars, random_calls,
                   runVars, path_arg, path,
                   path_i, start_points, start_time, score, timer>>

(* The path elements tried: the start, a hazard, the chair, the office and *)
(* two positions outside the grid.                                         *)
PathCells ==
    {placement.start, placement.chair, placement.office, <<WORLD_W, 0>>, <<0, -1>>}
        \cup placement.angry_main

RECURSIVE SeqsUpTo(_, _)
SeqsUpTo(S, n) ==
    IF n = 0 THEN {<<>>}
    ELSE LET shorter == SeqsUpTo(S, n - 1)
         IN  shorter \cup {Append(q, e) : q \in {r \in shorter : Len(r) = n - 1}, e \in S}

StartPoints == {0, 1, 2, 151, 153}
StartTimes == {0, 1, 2, 3}

InitSim ==
    /\ \E d \in SampleDraws : WorldReturned(d)
    /\ pc = "sim_call"
    /\ TopoIdle
    /\ RunIdle
    /\ SearchIdle
    /\ path_arg \in SeqsUpTo(PathCells, MaxPathLen)
    /\ start_points \in StartPoints
    /\ start_time \in StartTimes
    /\ path = <<>>
    /\ path_i = 1
    /\ score = 0
    /\ timer = 0
    /\ trace = <<>>

NextSim == SimCall \/ SimStep \/ SimReturn

SpecSim == InitSim /\ [][NextSim]_vars

Last(q) == q[Len(q)]

(* C7: along a trace score and timer never increase, never drop below 0    *)
(* and never exceed the start values (which are not negative).             *)
C7_ScoreTimerMonotone ==
    \A i \in 1 .. Len(trace) :
        /\ 0 <= trace[i].score /\ trace[i].score <= start_points
        /\ 0 <= trace[i].timer /\ trace[i].timer <= start_time
        /\ i > 1 => /\ trace[i].score <= trace[i - 1].score
                    /\ trace[i].timer <= trace[i - 1].timer

C7_Witness ==
    /\ pc = "sim_returned"
    /\ Len(trace) = 3
    /\ trace[2].reason = "angry"
    /\ trace[2].score < trace[1].score - 1
    /\ trace[3].score < trace[2].score

(* C8: the last record of a trace has reason "goal" exactly when it stands *)
(* on the Office of the generated world; a record on the Chair has score 0 *)
(* and reason "chair".                                                     *)
C8_GoalIffOffice ==
    pc = "sim_returned" =>
        /\ Last(trace).reason = "goal" <=> Last(trace).pos = placement.office
        /\ \A i \in 1 .. Len(trace) :
               trace[i].pos = placement.chair =>
                   trace[i].score = 0 /\ trace[i].reason = "chair"

C8_Witness ==
    /\ pc = "sim_returned"
    /\ Len(trace) > 1
    /\ Last(trace).reason = "goal"
    /\ Last(trace).score > 0

(* C9: a record whose score has reached 0 is marked "no_points" and one    *)
(* whose timer has reached 0 is marked "no_time": a run that ends because  *)
(* points or time ran out ends with one of these two reasons.              *)
C9_ExhaustionReasons ==
    pc = "sim_returned" =>
        \A i \in 1 .. Len(trace) :
            ((trace[i].score <= 0 \/ trace[i].timer <= 0)
                /\ trace[i].reason \notin {"chair", "goal", "done"})
                    => trace[i].reason \in {"no_points", "no_time"}

Terminal(rec) ==
    \/ grid[rec.pos] \in {CHAIR, OFFICE}
    \/ rec.score <= 0
    \/ rec.timer <= 0

(* Every record but the last is a live one: off the Chair and the Office,  *)
(* score and timer above 0, reason "normal" or "angry".                    *)
EndsAtFirstTerminal ==
    \A i \in 1 .. Len(trace) - 1 :
        /\ ~Terminal(trace[i])
        /\ trace[i].reason \in {"normal", "angry"}

InsideGrid(q) == SelectSeq(q, LAMBDA e : in_grid(grid, e[1], e[2]))

ScoreBefore(i) == IF i = 1 THEN start_points ELSE trace[i - 1].score

TimerBefore(i) == IF i = 1 THEN start_time ELSE trace[i - 1].timer

C12_EmptyPathDone ==
    (pc = "sim_returned" /\ path_arg = <<>>) =>
        trace = <<[pos |-> placement.start, score |-> start_points,
                   timer |-> start_time, reason |-> "done"]>>

---------------------------------------------------------------------------
(* Search strategies: search_algorithms.py.  The locals of the running     *)
(* search are the fields of loc; None is NoPos; a dict of counts is a      *)
(* function whose domain is the dict's keys.                               *)

MaxSteps == 7
MaxRestarts == 1

backtrack_penalty == 5
sideways_limit == 30
visited_limit == 16
stagnation_limit == 250
oscillation_memory == 20

(* dict.get(k, 0)                                                          *)
get0(d, k) == IF k \in DOMAIN d THEN d[k] ELSE 0

(* d[k] = d.get(k, 0) + 1                                                  *)
incr(d, k) == [c \in DOMAIN d \cup {k} |-> IF c = k THEN get0(d, k) + 1 ELSE d[c]]

EmptyDict == [c \in {} |-> 0]

max2(a, b) == IF a >= b THEN a ELSE b

(* list.sort(key=lambda x: x[0]): a stable sort on the first component.    *)
RECURSIVE sort_by_first(_)
sort_by_first(q) ==
    IF Len(q) <= 1 THEN q
    ELSE LET t == sort_by_first(SubSeq(q, 1, Len(q) - 1))
             x == q[Len(q)]
             k == Cardinality({i \in 1 .. Len(t) : t[i][1] <= x[1]})
         IN  SubSeq(t, 1, k) \o <<x>> \o SubSeq(t, k + 1, Len(t))

(* The two nested loops of the two-step lookahead: the first step s1, in   *)
(* neighbour order and outside skip, whose second step comes strictly      *)
(* closest to the goal; NoPos (None) when there is no second step at all.  *)
lookahead(g, p, goal, skip) ==
    LET nbrs1 == SelectSeq(get_neighbors(g, p), LAMBDA s1 : s1 \notin skip)
        scores == {manhattan(s2, goal) :
                      s2 \in UNION {Range(get_neighbors(g, nbrs1[i])) : i \in 1 .. Len(nbrs1)}}
    IN  IF scores = {} THEN NoPos
        ELSE LET m == CHOOSE v \in scores : \A w \in scores : v <= w
                 first == CHOOSE i \in 1 .. Len(nbrs1) :
                              /\ \E s2 \in Range(get_neighbors(g, nbrs1[i])) :
                                     manhattan(s2, goal) = m
                              /\ \A j \in 1 .. i - 1 :
                                     \A s2 \in Range(get_neighbors(g, nbrs1[j])) :
                                         manhattan(s2, goal) # m
             IN  nbrs1[first]

(* hill_climbing lines 421-431.                                            *)
two_step_best(g, p, goal) == lookahead(g, p, goal, {})

(* path[-1] == path[-3] and path[-2] == path[-4]                           *)
oscillates(q) ==
    /\ Len(q) >= 4
    /\ q[Len(q)] = q[Len(q) - 2]
    /\ q[Len(q) - 1] = q[Len(q) - 3]

(* hill_climbing lines 411-419.                                            *)
hc_locals(s) ==
    [cur |-> s, path |-> <<s>>, steps |-> 0, last |-> NoPos, sideways_used |-> 0,
     visited |-> <<>>, visited_counts |-> EmptyDict, max_space |-> 0]

(* The move every branch of hill_climbing makes: lines 468-477 and alike.  *)
hc_move(l, nxt, sideways) ==
    LET grown == Append(l.visited, l.cur)
    IN  [l EXCEPT !.sideways_used = sideways,
                  !.last = l.cur,
                  !.visited = IF Len(grown) > visited_limit THEN Tail(grown) ELSE grown,
                  !.visited_counts = incr(l.visited_counts, l.cur),
                  !.max_space = max2(l.max_space, Len(grown)),
                  !.cur = nxt,
                  !.path = Append(l.path, nxt)]

(* A variant of hc_best that forgets to sort the scored neighbours.        *)
hc_best_unsorted(l, nbrs_, goal) ==
    LET fresh == SelectSeq(nbrs_, LAMBDA n : n \notin Range(l.visited))
    IN  IF fresh # <<>> THEN fresh[1] ELSE nbrs_[1]

(* hill_climbing lines 442-464: the neighbour the climb prefers.           *)
hc_best(l, nbrs_, goal) ==
    LET scored == [i \in 1 .. Len(nbrs_) |->
                      <<manhattan(nbrs_[i], goal)
                            + (IF l.last # NoPos /\ nbrs_[i] = l.last
                               THEN backtrack_penalty ELSE 0)
                            + get0(l.visited_counts, nbrs_[i]),
                        nbrs_[i]>>]
        sorted == sort_by_first(scored)
        fresh == SelectSeq(sorted, LAMBDA e : e[2] \notin Range(l.visited))
    IN  IF fresh # <<>> THEN fresh[1][2] ELSE sorted[1][2]

(* A variant of at_goal that never sees the goal.                          *)
at_goal_never(cur, goal) == FALSE

(* `if cur == goal: break`, the first test of every loop: lines 435, 580   *)
(* and 718.                                                                *)
at_goal(cur, goal) == cur = goal

(* hill_climbing lines 433-535: one iteration of the for-loop from the     *)
(* locals l0; the set of outcomes [loc, brk, drew], brk when the loop      *)
(* breaks, drew the number of calls the iteration made on random.          *)
hc_iteration(g, goal, l0) ==
    LET l == [l0 EXCEPT !.steps = l0.steps + 1]
        nbrs_ == get_neighbors(g, l.cur)
        stay(k) == {[loc |-> l, brk |-> TRUE, drew |-> k]}
    IN  IF at_goal(l.cur, goal) \/ nbrs_ = <<>> THEN stay(0)
        ELSE
          LET d_cur == manhattan(l.cur, goal)
              best == hc_best(l, nbrs_, goal)
              best_manhattan == manhattan(best, goal)
              detour == two_step_best(g, l.cur, goal)
              safe == {n \in Range(nbrs_) : manhattan(n, goal) <= d_cur + 2 /\ n # l.last}
              cand == {n \in Range(nbrs_) : n # l.path[Len(l.path) - 1]}
              go(n, k) == [loc |-> hc_move(l, n, l.sideways_used), brk |-> FALSE,
                           drew |-> k]
              later(k) ==
                  IF detour # NoPos /\ detour # l.cur /\ detour \notin Range(l.visited)
                  THEN {go(detour, k)}
                  ELSE IF safe # {} THEN {go(n, k + 1) : n \in safe}
                  ELSE IF oscillates(l.path) /\ cand # {} THEN {go(n, k + 1) : n \in cand}
                  ELSE stay(k)
          IN  IF best_manhattan < d_cur
              THEN {[loc |-> hc_move(l, best, 0), brk |-> FALSE, drew |-> 0]}
              ELSE IF best_manhattan = d_cur /\ l.sideways_used < sideways_limit
              THEN {[loc |-> hc_move(l, best, l.sideways_used + 1), brk |-> FALSE,
                     drew |-> 1]}
                       \cup later(1)
              ELSE later(0)

(* hill_climbing lines 537-542.                                            *)
hc_result(s, l) ==
    LET p1 == IF l.path = <<>> THEN <<s>> ELSE l.path
        p2 == IF p1[1] # s THEN <<s>> \o p1 ELSE p1
    IN  [path |-> p2,
         metrics |-> [steps |-> l.steps, space |-> l.max_space,
                      sideways |-> l.sideways_used]]

(* run_once lines 572-576: a run starts at p.                              *)
run_start(l, p) ==
    [l EXCEPT !.cur = p, !.last = NoPos, !.path = <<p>>, !.visited = EmptyDict,
              !.visited_list = <<>>, !.i = 0]

(* stochastic_hill_climbing lines 564-568, then the primary run begins;    *)
(* r counts the runs finished.                                             *)
shc_locals(s, goal) ==
    run_start([total_steps |-> 0, max_space |-> 0, best_path |-> <<s>>,
               best_dist |-> manhattan(s, goal), r |-> 0,
               cur |-> s, last |-> NoPos, path |-> <<s>>, visited |-> EmptyDict,
               visited_list |-> <<>>, i |-> 0], s)

shc_move(l, n) == [l EXCEPT !.last = l.cur, !.cur = n, !.path = Append(l.path, n)]

(* run_once lines 578-650: one iteration of the for-loop from the locals   *)
(* l0; the set of outcomes [loc, brk, drew].                               *)
shc_iteration(g, goal, l0) ==
    LET l == [l0 EXCEPT !.total_steps = l0.total_steps + 1, !.i = l0.i + 1]
    IN  IF at_goal(l.cur, goal) THEN {[loc |-> l, brk |-> TRUE, drew |-> 0]}
        ELSE
          LET vl == Append(l.visited_list, l.cur)
              l1 == [l EXCEPT !.visited = incr(l.visited, l.cur),
                              !.visited_list = vl,
                              !.max_space = max2(l.max_space, Len(vl))]
              nbrs_ == get_neighbors(g, l1.cur)
              others == {n \in Range(nbrs_) : n # l1.last}
              d_cur == manhattan(l1.cur, goal)
              improving == {n \in Range(nbrs_) : manhattan(n, goal) < d_cur}
              unworn == {n \in improving : get0(l1.visited, n) < 3}
              filtered == IF unworn # {} THEN unworn ELSE improving
              non_back == {n \in filtered : n # l1.last}
              detour == lookahead(g, l1.cur, goal,
                                  {s1 \in Range(nbrs_) : get0(l1.visited, s1) > 3})
              cand == {n \in Range(nbrs_) : n # l1.path[Len(l1.path) - 1]}
              go(n, k) == [loc |-> shc_move(l1, n), brk |-> FALSE, drew |-> k]
              swing == IF oscillates(l1.path) /\ cand # {}
                       THEN {go(n, 2) : n \in cand}
                       ELSE {[loc |-> l1, brk |-> TRUE, drew |-> 1]}
          IN  IF l1.visited[l1.cur] >= 5
              THEN IF others = {}
                   THEN {[loc |-> [l1 EXCEPT !.total_steps = @ + Len(nbrs_)],
                          brk |-> FALSE, drew |-> 1]}
                   ELSE {[loc |-> shc_move([l1 EXCEPT !.total_steps = @ + e], n),
                          brk |-> FALSE, drew |-> 1] :
                            n \in others,
                            e \in IF l1.last \in Range(nbrs_) THEN {1, 2} ELSE {1}}
              ELSE IF nbrs_ = <<>> THEN {[loc |-> l1, brk |-> TRUE, drew |-> 0]}
              ELSE IF filtered # {}
              THEN {go(n, 1) : n \in IF non_back # {} THEN non_back ELSE filtered}
              ELSE IF detour # NoPos THEN {go(detour, 0)}
              ELSE {go(n, 2) : n \in others} \cup swing

(* Lines 654-672: a run is over; the best path so far is kept.             *)
shc_keep_best(l, goal) ==
    LET trial_d == manhattan(l.path[Len(l.path)], goal)
    IN  IF l.r = 0 \/ trial_d < l.best_dist
        THEN [l EXCEPT !.best_path = l.path, !.best_dist = trial_d, !.r = l.r + 1]
        ELSE [l EXCEPT !.r = l.r + 1]

(* Lines 661-664: the cells a restart may pick.                            *)
restart_candidates(g, s) ==
    LET walkable_main == {c \in DOMAIN g : is_walkable(g, c[1], c[2]) /\ is_in_main(c[1], c[2])}
    IN  IF walkable_main = {} THEN {s} ELSE walkable_main

(* A variant of shc_result that returns the best path as it stands.        *)
shc_result_asis(s, l, n) ==
    [path |-> l.best_path,
     metrics |-> [steps |-> l.total_steps, restarts |-> n, space |-> l.max_space]]

(* Lines 674-678.                                                          *)
shc_result(s, l, n) ==
    [path |-> IF l.best_path # <<>> /\ l.best_path[1] # s
              THEN <<s>> \o SelectSeq(l.best_path, LAMBDA q : q # s)
              ELSE l.best_path,
     metrics |-> [steps |-> l.total_steps, restarts |-> n, space |-> l.max_space]]

(* simulated_annealing lines 694-702.  T is kept as "zero" or "positive":  *)
(* with t0 = 15.0 and alpha = 0.995 it stays above the floor of 1e-12 for  *)
(* more iterations than any run explored here makes.                       *)
sa_locals(s, t) ==
    [cur |-> s, path |-> <<s>>, steps |-> 0,
     T |-> IF t > 0 THEN "positive" ELSE "zero",
     stagnation |-> 0, visited |-> EmptyDict, last_positions |-> <<>>]

(* A variant of sa_options that lets the walk turn back at once.           *)
sa_options_any(nbrs_, q) == Range(nbrs_)

(* Lines 727-729: the neighbours other than the path's last but one cell,  *)
(* or all neighbours when no other is left.                                *)
sa_options(nbrs_, q) ==
    LET forward == {n \in Range(nbrs_) : Len(q) < 2 \/ n # q[Len(q) - 1]}
    IN  IF forward # {} THEN forward ELSE Range(nbrs_)

(* A variant of too_revisited that lets the walk go on.                    *)
too_revisited_never(seen, n) == FALSE

(* Line 769: the cell arrived at has been left more than 12 times.         *)
too_revisited(seen, n) == get0(seen, n) > 12

(* simulated_annealing lines 716-780: one iteration of the for-loop.       *)
sa_iteration(g, goal, l0) ==
    LET l == [l0 EXCEPT !.steps = l0.steps + 1]
        nbrs_ == get_neighbors(g, l.cur)
        stay == {[loc |-> l, brk |-> TRUE, drew |-> 0]}
    IN  IF at_goal(l.cur, goal) \/ l.T = "zero" \/ nbrs_ = <<>> THEN stay
        ELSE
          LET options == sa_options(nbrs_, l.path)
              alt == {n \in options : n \notin Range(l.last_positions)}
              d_cur == manhattan(l.cur, goal)
              remembered(n) ==
                  LET grown == Append(l.last_positions, n)
                  IN  IF Len(grown) > oscillation_memory THEN Tail(grown) ELSE grown
              picks == IF alt # {} /\ options \ alt # {} THEN {1, 2} ELSE {1}
              rejected(n, k) == [loc |-> [l EXCEPT !.last_positions = remembered(n)],
                                 brk |-> FALSE, drew |-> k]
              accepted(n, k) ==
                  LET stag == IF manhattan(n, goal) = d_cur THEN l.stagnation + 1 ELSE 0
                      seen == incr(l.visited, l.cur)
                  IN  [loc |-> [l EXCEPT !.last_positions = remembered(n),
                                         !.stagnation = stag,
                                         !.visited = seen,
                                         !.cur = n,
                                         !.path = Append(l.path, n)],
                       brk |-> too_revisited(seen, n) \/ stag >= stagnation_limit
                                  \/ n = goal,
                       drew |-> k]
          IN  UNION {IF manhattan(n, goal) - d_cur <= 0
                     THEN {accepted(n, k)}
                     ELSE {accepted(n, k + 1), rejected(n, k + 1)} :
                         n \in IF alt # {} THEN alt ELSE options, k \in picks}

(* Lines 782-788: consecutive repetitions are dropped.                     *)
RECURSIVE cleaned(_)
cleaned(q) ==
    IF Len(q) <= 1 THEN q
    ELSE LET c == cleaned(SubSeq(q, 1, Len(q) - 1))
         IN  IF c[Len(c)] # q[Len(q)] THEN Append(c, q[Len(q)]) ELSE c

(* Lines 782-792.                                                          *)
sa_result(s, l) ==
    LET c1 == IF cleaned(l.path) = <<>> THEN <<s>> ELSE cleaned(l.path)
        c2 == IF c1[1] # s THEN <<s>> \o c1 ELSE c1
    IN  [path |-> c2,
         metrics |-> [steps |-> l.steps, stagnation |-> l.stagnation,
                      osc_mem |-> Len(l.last_positions), t_final |-> l.T]]

(* controller.compute_path lines 39-50: the strategy named algo is called  *)
(* on the grid, the placement and placement.start.                         *)
SearchCall ==
    /\ pc = "search_call"
    /\ loc' = IF algo = "hc" THEN hc_locals(placement.start)
              ELSE IF algo = "shc" THEN shc_locals(placement.start, placement.office)
              ELSE sa_locals(placement.start, t0)
    /\ pc' = IF algo = "hc" THEN "hc_loop"
             ELSE IF algo = "shc" THEN "shc_loop" ELSE "sa_loop"
    /\ UNCHANGED <<MAIN_W, PAB_W, grid, worldVars, topoVars, simVars, runVars,
                   algo, max_steps, restarts, t0, result, random_calls>>

HCStep ==
    /\ pc = "hc_loop"
    /\ loc.steps < max_steps
    /\ \E o \in hc_iteration(grid, placement.office, loc) :
           /\ loc' = o.loc
           /\ random_calls' = random_calls + o.drew
           /\ pc' = IF o.brk THEN "hc_end" ELSE "hc_loop"
    /\ UNCHANGED <<MAIN_W, PAB_W, grid, worldVars, topoVars, simVars, runVars,
                   algo, max_steps, restarts, t0, result>>

HCReturn ==
    /\ \/ pc = "hc_loop" /\ loc.steps >= max_steps
       \/ pc = "hc_end"
    /\ result' = hc_result(placement.start, loc)
    /\ pc' = "search_returned"
    /\ UNCHANGED <<MAIN_W, PAB_W, grid, worldVars, topoVars, simVars, runVars,
                   algo, max_steps, restarts, t0, loc, random_calls>>

SHCStep ==
    /\ pc = "shc_loop"
    /\ loc.i < max_steps
    /\ \E o \in shc_iteration(grid, placement.office, loc) :
           /\ loc' = o.loc
           /\ random_calls' = random_calls + o.drew
           /\ pc' = IF o.brk THEN "shc_run_end" ELSE "shc_loop"
    /\ UNCHANGED <<MAIN_W, PAB_W, grid, worldVars, topoVars, simVars, runVars,
                   algo, max_steps, restarts, t0, result>>

(* The restart cells explored, out of restart_candidates.                  *)
RestartPicks ==
    {placement.start, BRIDGE_ENTRANCE_MAIN, <<0, 0>>, <<MAIN_W - 2, MAIN_H - 2>>}

(* Lines 652-672: run_once returns; the next restart begins, if any.       *)
SHCRunEnd ==
    /\ \/ pc = "shc_loop" /\ loc.i >= max_steps
       \/ pc = "shc_run_end"
    /\ \E l \in {shc_keep_best(loc, placement.office)} :
           IF l.r <= restarts
           THEN /\ \E picked \in restart_candidates(grid, placement.start) \cap RestartPicks :
                       loc' = run_start(l, picked)
                /\ random_calls' = random_calls + 1
                /\ pc' = "shc_loop"
           ELSE /\ loc' = l
                /\ pc' = "shc_done"
                /\ UNCHANGED random_calls
    /\ UNCHANGED <<MAIN_W, PAB_W, grid, worldVars, topoVars, simVars, runVars,
                   algo, max_steps, restarts, t0, result>>

SHCReturn ==
    /\ pc = "shc_done"
    /\ result' = shc_result(placement.start, loc, restarts)
    /\ pc' = "search_returned"
    /\ UNCHANGED <<MAIN_W, PAB_W, grid, worldVars, topoVars, simVars, runVars,
                   algo, max_steps, restarts, t0, loc, random_calls>>

SAStep ==
    /\ pc = "sa_loop"
    /\ loc.steps < max_steps
    /\ \E o \in sa_iteration(grid, placement.office, loc) :
           /\ loc' = o.loc
           /\ random_calls' = random_calls + o.drew
           /\ pc' = IF o.brk THEN "sa_end" ELSE "sa_loop"
    /\ UNCHANGED <<MAIN_W, PAB_W, grid, worldVars, topoVars, simVars, runVars,
                   algo, max_steps, restarts, t0, result>>

SAReturn ==
    /\ \/ pc = "sa_loop" /\ loc.steps >= max_steps
       \/ pc = "sa_end"
    /\ result' = sa_result(placement.start, loc)
    /\ pc' = "search_returned"
    /\ UNCHANGED <<MAIN_W, PAB_W, grid, worldVars, topoVars, simVars, runVars,
                   algo, max_steps, restarts, t0, loc, random_calls>>

(* The grid of a world with the start walled in on all four sides: a grid  *)
(* on which no move is possible.                                           *)
Boxed(g, s) == [c \in DOMAIN g |-> IF c \in neighbors4(s) THEN WALL ELSE g[c]]

StepBudgets == {0, 1, MaxSteps}

InitSearch ==
    /\ MAIN_W = MinMainW
    /\ PAB_W = MinPabW
    /\ \E d \in SampleDraws :
           \E g \in {world_grid(d[1], d[2], d[3], d[4], d[5], d[6], d[7])} :
               WorldGiven(d, g) \/ WorldGiven(d, Boxed(g, d[1]))
    /\ pc = "search_call"
    /\ TopoIdle
    /\ RunIdle
    /\ SimIdle
    /\ algo \in {"hc", "shc", "sa"}
    /\ max_steps \in StepBudgets
    /\ restarts \in IF algo = "shc" THEN 0 .. MaxRestarts ELSE {0}
    /\ t0 \in IF algo = "sa" THEN {0, 15} ELSE {0}
    /\ loc = [cur |-> NoPos]
    /\ result = NoResult
    /\ random_calls = 0

NextSearch ==
    \/ SearchCall
    \/ HCStep \/ HCReturn
    \/ SHCStep \/ SHCRunEnd \/ SHCReturn
    \/ SAStep \/ SAReturn

SpecSearch == InitSearch /\ [][NextSearch]_vars

(* The grid at hand is the one build_world painted for the placement.      *)
GeneratedWorld ==
    grid = world_grid(placement.start, placement.walls_main, placement.walls_pab,
                      placement.angry_main, placement.office, placement.chair,
                      placement.angry_pab)

(* C2: on a generated world every path a search returns moves by legal     *)
(* steps only, each element a neighbour (get_neighbors) of the one before  *)
(* it, and holds no Wall cell.                                             *)
C2_ReturnedPathLegal ==
    (pc = "search_returned" /\ GeneratedWorld) =>
        /\ \A k \in 1 .. Len(result.path) - 1 :
               result.path[k + 1] \in Range(get_neighbors(grid, result.path[k]))
        /\ \A k \in 1 .. Len(result.path) : grid[result.path[k]] # WALL

(* C6: every search returns a path that is not empty and begins at the     *)
(* start it was given, whatever the grid and the random outcomes, also     *)
(* when no move is possible.                                               *)
C6_PathBeginsAtStart ==
    pc = "search_returned" =>
        /\ result.path # <<>>
        /\ result.path[1] = placement.start

C6_Witness ==
    /\ pc = "search_returned"
    /\ algo = "shc"
    /\ loc.best_path[1] # placement.start
    /\ result.path[1] = placement.start
    /\ Len(result.path) > 1

---------------------------------------------------------------------------
(* The two pipelines: controller.main (lines 150-322) and                  *)
(* batch_runner.run_one (lines 160-355).  For each agent id in turn the    *)
(* strategy is called, its path is sanitized, a trace is obtained for the  *)
(* path and the agent's record is appended to agents.                      *)

START_POINTS == 1000
START_TIME == 300

(* The step budget of a search called by a pipeline (4000 or 6000 in the   *)
(* source, the default of each strategy).                                  *)
RunSteps == 3

(* search_algorithms.sanitize_path, lines 87-102: the path up to its first *)
(* element that is outside the grid or not walkable, and not beyond its    *)
(* first Chair or Office.                                                  *)
RECURSIVE sanitize_path(_, _)
sanitize_path(g, q) ==
    IF q = <<>> THEN <<>>
    ELSE LET xi == Head(q)[1]
             yi == Head(q)[2]
         IN  IF ~((0 <= yi /\ yi < WORLD_H) /\ (0 <= xi /\ xi < WORLD_W)) THEN <<>>
             ELSE IF ~is_walkable(g, xi, yi) THEN <<>>
             ELSE IF g[<<xi, yi>>] \in {CHAIR, OFFICE} THEN <<Head(q)>>
             ELSE <<Head(q)>> \o sanitize_path(g, Tail(q))

(* batch_runner.run_one lines 266-275: the elements inside the grid that   *)
(* are not Wall cells.                                                     *)
batch_clean(g, q) ==
    SelectSeq(q, LAMBDA p : (0 <= p[2] /\ p[2] < WORLD_H) /\ (0 <= p[1] /\ p[1] < WORLD_W)
                                /\ g[p] # WALL)

(* controller.main lines 228-229, batch_runner.run_one lines 277-278.      *)
start_first(q, s) ==
    IF q = <<>> \/ q[1] # s THEN <<s>> \o SelectSeq(q, LAMBDA p : p # s) ELSE q

(* search_algorithms.run_with_metrics, lines 799-809 (the definition in    *)
(* force; the one of lines 816-914 is commented out).                      *)
run_with_metrics(g, pl, q, sp, st) ==
    [i \in 1 .. Len(q) |->
        [pos |-> q[i], score |-> sp, timer |-> st, time |-> st, reason |-> "normal"]]

(* controller.fallback_run_with_metrics lines 98-126 as a function: the    *)
(* records of the elements q[i], q[i+1], ... from score sc and timer tm.   *)
RECURSIVE fallback_walk(_, _, _, _, _)
fallback_walk(g, q, i, sc, tm) ==
    IF i > Len(q) THEN <<>>
    ELSE IF ~in_grid(g, q[i][1], q[i][2]) THEN fallback_walk(g, q, i + 1, sc, tm)
    ELSE LET e == cell_effect(g[q[i]], sc, tm)
             rec == [pos |-> q[i], score |-> e.score, timer |-> e.timer,
                     reason |-> e.reason]
         IN  IF stops(e.reason, e.score, e.timer) THEN <<rec>>
             ELSE <<rec>> \o fallback_walk(g, q, i + 1, e.score, e.timer)

(* controller.fallback_run_with_metrics, lines 82-132.                     *)
fallback_run_with_metrics(g, pl, q, sp, st) ==
    LET walked == fallback_walk(g, IF q = <<>> THEN <<pl.start>> ELSE q, 1, sp, st)
    IN  IF walked = <<>>
        THEN <<[pos |-> pl.start, score |-> sp, timer |-> st, reason |-> "done"]>>
        ELSE walked

(* controller.main lines 232-240, batch_runner.run_one lines 283-288: the  *)
(* trace of search_algorithms.run_with_metrics, and the fallback's when    *)
(* that one is empty.                                                      *)
get_trace(g, pl, q) ==
    LET first == run_with_metrics(g, pl, q, START_POINTS, START_TIME)
    IN  IF first = <<>>
        THEN fallback_run_with_metrics(g, pl, q, START_POINTS, START_TIME)
        ELSE first

(* dict.get(key, 0) on the metrics a search returned.                      *)
metric(mt, key) == IF key \in DOMAIN mt THEN mt[key] ELSE 0

(* controller.main lines 242-253, batch_runner.run_one lines 290-309: the  *)
(* positions of the trace (the controller keeps those inside the grid).    *)
anim_trace(pl, g, tr, s) ==
    LET positions == [i \in 1 .. Len(tr) |-> tr[i].pos]
        kept == IF pl = "controller"
                THEN SelectSeq(positions, LAMBDA p : in_grid(g, p[1], p[2]))
                ELSE positions
    IN  IF kept = <<>> THEN <<s>> ELSE kept

(* controller.main lines 257-305, batch_runner.run_one lines 314-351: the  *)
(* record appended to agents, built from the trace's last record.          *)
agent_record(pl, g, plc, id, a, tr, mt) ==
    LET state == tr[Len(tr)]
        anim == anim_trace(pl, g, tr, plc.start)
        steps == IF pl = "controller" /\ metric(mt, "steps") <= 0
                 THEN max0(Len(tr) - 1)
                 ELSE metric(mt, "steps")
        derived == IF state.score <= 0 THEN "no_points"
                   ELSE IF state.timer <= 0 THEN "no_time"
                   ELSE IF anim[Len(anim)] = plc.office THEN "goal" ELSE "done"
    IN  [id |-> id, algo |-> a, pos |-> plc.start,
         score |-> state.score, timer |-> state.timer,
         reason |-> IF pl = "controller" /\ state.reason = "" THEN derived
                    ELSE state.reason,
         path |-> anim,
         metrics |-> [steps |-> steps, space |-> metric(mt, "space")]]

(* placement.algo = algo: the attribute is added to the Placement object   *)
(* by the first agent and overwritten by the next ones.                    *)
with_algo(plc, a) ==
    [k \in DOMAIN plc \cup {"algo"} |-> IF k = "algo" THEN a ELSE plc[k]]

(* controller.main lines 185-191, batch_runner.run_one lines 242-251: the  *)
(* for-loop takes the next agent id and calls its strategy with the        *)
(* strategy's default arguments.                                           *)
RunAgent ==
    /\ pc = "run_agent"
    /\ aid <= 3
    /\ algo' = algos[aid]
    /\ placement' = with_algo(placement, algos[aid])
    /\ max_steps' = RunSteps
    /\ restarts' = IF algos[aid] = "shc" THEN MaxRestarts ELSE 0
    /\ t0' = IF algos[aid] = "sa" THEN 15 ELSE 0
    /\ pc' = "search_call"
    /\ UNCHANGED <<MAIN_W, PAB_W, grid, CONFIG, max_tries, tries, start, walls_main,
                   walls_pab, angry_main, topoVars, simVars, loc, result, random_calls,
                   pipeline, raw, algos, aid, raw_path, mtrace, agents>>

(* controller.main lines 196-229, batch_runner.run_one lines 256-278: the  *)
(* returned path is sanitized and made to begin with start.                *)
RunSanitize ==
    /\ pc = "search_returned"
    /\ raw_path' = result.path
    /\ path' = start_first(IF pipeline = "controller"
                           THEN sanitize_path(grid, result.path)
                           ELSE batch_clean(grid, result.path),
                           placement.start)
    /\ pc' = "run_trace"
    /\ UNCHANGED <<MAIN_W, PAB_W, grid, worldVars, topoVars, searchVars, random_calls,
                   path_arg, path_i, start_points, start_time, score, timer, trace,
                   pipeline, raw, algos, aid, mtrace, agents>>

(* controller.main lines 231-240, batch_runner.run_one lines 283-288.      *)
RunTrace ==
    /\ pc = "run_trace"
    /\ mtrace' = get_trace(grid, placement, path)
    /\ pc' = "run_record"
    /\ UNCHANGED <<MAIN_W, PAB_W, grid, worldVars, topoVars, simVars, searchVars,
                   random_calls, pipeline, raw, algos, aid,
                   raw_path, agents>>

(* controller.main lines 242-305, batch_runner.run_one lines 290-351: the  *)
(* agent's record is appended and the for-loop goes on.                    *)
RunRecord ==
    /\ pc = "run_record"
    /\ agents' = Append(agents, agent_record(pipeline, grid, placement, aid, algo,
                                             mtrace, result.metrics))
    /\ aid' = aid + 1
    /\ pc' = IF aid < 3 THEN "run_agent" ELSE "run_done"
    /\ UNCHANGED <<MAIN_W, PAB_W, grid, worldVars, topoVars, simVars, searchVars,
                   random_calls, pipeline, raw, algos, raw_path,
                   mtrace>>

(* controller.DEFAULT_ALGOS, line 33.                                      *)
DEFAULT_ALGOS == <<"hc", "shc", "sa">>

(* validate_algos line 63.                                                 *)
allowed == <<"hc", "shc", "sa">>

(* What raw.get(aid) gives for an agent the mapping has no entry for.      *)
NoAlgo == "none"

(* A variant of first_unused that takes the first allowed name whatever    *)
(* has been used.                                                          *)
first_allowed(used) == allowed[1]

(* Lines 71-75: the first allowed name not used yet; none when all are.    *)
first_unused(used) ==
    LET free == SelectSeq(allowed, LAMBDA x : x \notin used)
    IN  IF free = <<>> THEN NoAlgo ELSE free[1]

(* Lines 64-76: the agents 1 .. n served in turn; used and out as they     *)
(* stand after agent n.                                                    *)
RECURSIVE validate_upto(_, _)
validate_upto(r, n) ==
    IF n = 0 THEN [used |-> {}, out |-> <<>>]
    ELSE LET before == validate_upto(r, n - 1)
             a == r[n]
             given == IF a \in Range(allowed) /\ a \notin before.used
                      THEN a ELSE first_unused(before.used)
         IN  [used |-> IF given = NoAlgo THEN before.used ELSE before.used \cup {given},
              out |-> Append(before.out, given)]

(* controller.validate_algos, lines 56-76.                                 *)
validate_algos(r) == validate_upto(r, 3).out

(* What validate_algos (lines 56-76) can return: each agent its own        *)
(* strategy.                                                               *)
AlgoChoices ==
    {al \in [1 .. 3 -> {"hc", "shc", "sa"}] : \A i, j \in 1 .. 3 : i # j => al[i] # al[j]}

(* The state of a pipeline when its for-loop over the agents begins: the   *)
(* generator seeded, the world of draws d built, no agent recorded yet.    *)
RunBegins(d, choices) ==
    /\ WorldReturned(d)
    /\ pc = "run_agent"
    /\ TopoIdle
    /\ SimIdle
    /\ SearchIdle
    /\ pipeline \in {"controller", "batch"}
    /\ raw \in choices
    /\ algos = validate_algos(raw)
    /\ aid = 1
    /\ raw_path = <<>>
    /\ mtrace = <<>>
    /\ agents = <<>>

InitRun == \E d \in SampleDraws : RunBegins(d, AlgoChoices)

NextRun ==
    \/ RunAgent
    \/ SearchCall
    \/ HCStep \/ HCReturn
    \/ SHCStep \/ SHCRunEnd \/ SHCReturn
    \/ SAStep \/ SAReturn
    \/ RunSanitize
    \/ RunTrace
    \/ RunRecord

(* A pipeline run with the three strategies of the repository.             *)
SpecRun == InitRun /\ [][NextRun]_vars

MaxRawLen == 3

(* Elements of the paths handed to the sanitizing code: the start, an      *)
(* Empty neighbour of it, a Wall, the Chair, the Office, a cell of the     *)
(* rectangle that belongs to no zone and a position outside the grid.      *)
RawCells ==
    {placement.start, <<placement.start[1], placement.start[2] + 1>>,
     placement.chair, placement.office, <<MAIN_W + 1, 0>>, <<WORLD_W, 0>>}
        \cup placement.walls_main

RawPaths == SeqsUpTo(RawCells, MaxRawLen)

(* compute_path returns.  The strategy called is left open here: the first *)
(* two agents' strategies return the path [start], the third agent's any   *)
(* path of RawPaths, so that the sanitizing code meets every kind of path. *)
AnyStrategy ==
    /\ pc = "search_call"
    /\ \E q \in IF aid < 3 THEN {<<placement.start>>} ELSE RawPaths :
           result' = [path |-> q, metrics |-> [steps |-> 0, space |-> 0]]
    /\ pc' = "search_returned"
    /\ UNCHANGED <<MAIN_W, PAB_W, grid, worldVars, topoVars, simVars, runVars,
                   algo, max_steps, restarts, t0, loc, random_calls>>

InitPipe == \E d \in SampleDraws : RunBegins(d, {DEFAULT_ALGOS})

NextPipe == RunAgent \/ AnyStrategy \/ RunSanitize \/ RunTrace \/ RunRecord

(* A pipeline run in which the strategies may return any path.             *)
SpecPipe == InitPipe /\ [][NextPipe]_vars

(* A cell of the grid that is a Wall.                                      *)
IsWall(g, p) == p \in DOMAIN g /\ g[p] = WALL

(* C13: in both pipelines a search result whose first element is not start *)
(* or which holds a Wall cell is treated as an empty path: the path handed *)
(* to the simulator is the single-element path [start].                    *)
C13_InvalidPathBecomesStart ==
    (pc = "run_trace"
        /\ \/ raw_path # <<>> /\ raw_path[1] # placement.start
           \/ \E i \in 1 .. Len(raw_path) : IsWall(grid, raw_path[i]))
      => path = <<placement.start>>

---------------------------------------------------------------------------
(* The open world: Main 10 wide, Pab 7 wide, the bridge 3 long, no Wall    *)
(* and no Angry cell, the start at (0, 3), the office on any cell of Pab   *)
(* and the chair on any other Pab cell off the entrance column, or absent. *)
(* hill_climbing is called the way compute_path calls it.                  *)

hc_default_max_steps == 4000

ScenarioStart == <<0, 3>>

InitScenario ==
    /\ MAIN_W = DefaultMainW
    /\ PAB_W = DefaultPabW
    /\ CONFIG = [main_w |-> MAIN_W, pab_w |-> PAB_W, walls_main |-> 0,
                 walls_pab |-> 0, angry_main |-> 0, angry_pab |-> 0]
    /\ max_tries = MaxTries
    /\ tries = 1
    /\ start = ScenarioStart
    /\ walls_main = {}
    /\ walls_pab = {}
    /\ angry_main = {}
    /\ \E o \in all_pab_cells, c \in pab_candidates({}) \cup {NoPos} :
           /\ c # o
           /\ placement = world_placement(ScenarioStart, {}, {}, {}, o, c, {})
           /\ grid = world_grid(ScenarioStart, {}, {}, {}, o, c, {})
    /\ pc = "search_call"
    /\ TopoIdle
    /\ RunIdle
    /\ SimIdle
    /\ algo = "hc"
    /\ max_steps = hc_default_max_steps
    /\ restarts = 0
    /\ t0 = 0
    /\ loc = [cur |-> NoPos]
    /\ result = NoResult
    /\ random_calls = 0

NextScenario == SearchCall \/ HCStep \/ HCReturn

SpecScenario == InitScenario /\ [][NextScenario]_vars

(* C15 as the specification states it: in the open world hill_climbing     *)
(* ends on the office, calls random not once, and reports steps equal to   *)
(* the Manhattan distance from start to office.                            *)
C15_StepsEqualDistance ==
    pc = "search_returned" =>
        /\ Last(result.path) = placement.office
        /\ random_calls = 0
        /\ result.metrics.steps = manhattan(placement.start, placement.office)

(* C15: in the open world hill_climbing ends on the office, calls random   *)
(* not once, makes as many moves as the Manhattan distance from start to   *)
(* office, and reports steps one above that distance: the iteration that   *)
(* finds itself on the office is counted too.                              *)
C15_StepsOneAboveDistance ==
    pc = "search_returned" =>
        /\ Last(result.path) = placement.office
        /\ random_calls = 0
        /\ Len(result.path) - 1 = manhattan(placement.start, placement.office)
        /\ result.metrics.steps = manhattan(placement.start, placement.office) + 1

C15_Witness ==
    /\ pc = "search_returned"
    /\ placement.office = <<WORLD_W - 1, WORLD_H - 1>>
    /\ Last(result.path) = placement.office
    /\ result.metrics.steps = 23


(* C16 as the specification states it: once the world is built no step of  *)
(* a pipeline, of a search or of the trace changes a cell of the grid, or  *)
(* adds or changes a field of the placement.                               *)
C16_WorldReadOnly ==
    [][/\ grid' = grid
       /\ DOMAIN placement' = DOMAIN placement
       /\ \A k \in DOMAIN placement : placement'[k] = placement[k]]_vars


(* C17 as the specification states it: what the search of an agent reads   *)
(* (the grid, the start and the office of the placement, and the position  *)
(* of the generator of module random its draws come from) is left as it    *)
(* was by every step of the search of another agent, so that the order of  *)
(* the agents cannot matter.                                               *)
C17_SearchesShareNothing ==
    [][/\ grid' = grid
       /\ placement'.start = placement.start
       /\ placement'.office = placement.office
       /\ random_calls' = random_calls]_vars


(* The records the cost model gives for the path of the agent at hand.     *)
cost_model_trace ==
    fallback_run_with_metrics(grid, placement, path, START_POINTS, START_TIME)

(* C18 as the specification states it: the trace a pipeline obtains for    *)
(* the path of an agent carries, record by record, the running score and   *)
(* timer of the cost model, and the score, timer and reason reported for   *)
(* the agent are those of the last record of that trace.                   *)
C18_TraceCarriesCosts ==
    /\ pc = "run_record" =>
           \A i \in 1 .. Len(mtrace) :
               i <= Len(cost_model_trace) =>
                   /\ mtrace[i].score = cost_model_trace[i].score
                   /\ mtrace[i].timer = cost_model_trace[i].timer
    /\ (pc \in {"run_agent", "run_done"} /\ agents # <<>>) =>
           /\ agents[Len(agents)].score = mtrace[Len(mtrace)].score
           /\ agents[Len(agents)].timer = mtrace[Len(mtrace)].timer
           /\ agents[Len(agents)].reason = mtrace[Len(mtrace)].reason


---------------------------------------------------------------------------
(* The searches on worlds whose office lies off the bridge row: the cell   *)
(* of Main's last column on the office's row is then a local minimum of    *)
(* the Manhattan distance, where stochastic_hill_climbing swings between   *)
(* two cells until the fifth visit of one of them.                         *)

ShcSteps == 9

EscapeDraws ==
    {<<s, {<<4, 4>>}, {<<13, 6>>}, {<<6, 1>>}, <<11, 5>>, <<12, 3>>, {<<13, 2>>}>> :
        s \in {<<MinMainW - 1, 5>>, <<MinMainW - 2, 5>>}}

InitEscape ==
    /\ \E d \in EscapeDraws : WorldReturned(d)
    /\ pc = "search_call"
    /\ TopoIdle
    /\ RunIdle
    /\ SimIdle
    /\ algo \in {"hc", "shc", "sa"}
    /\ max_steps = IF algo = "shc" THEN ShcSteps ELSE MaxSteps
    /\ restarts \in IF algo = "shc" THEN 0 .. MaxRestarts ELSE {0}
    /\ t0 = IF algo = "sa" THEN 15 ELSE 0
    /\ loc = [cur |-> NoPos]
    /\ result = NoResult
    /\ random_calls = 0

SpecEscape == InitEscape /\ [][NextSearch]_vars

(* C19 as the specification states it: the steps a search reports stay     *)
(* within its budget of iterations, max_steps for hill_climbing and        *)
(* simulated_annealing and (1 + restarts) * max_steps for                  *)
(* stochastic_hill_climbing.                                               *)
C19_StepsWithinBudget ==
    pc = "search_returned" =>
        result.metrics.steps <= IF algo = "shc" THEN (1 + restarts) * max_steps
                                ELSE max_steps


(* C22 as the specification states it: the path stochastic_hill_climbing   *)
(* returns ends at the smallest of the final distances of its attempts,    *)
(* which is what best_dist holds when the last attempt is over (the        *)
(* primary's final distance, lowered by every restart that ends strictly   *)
(* nearer).                                                                *)
C22_ReturnsBestAttempt ==
    (pc = "search_returned" /\ algo = "shc") =>
        manhattan(result.path[Len(result.path)], placement.office) = loc.best_dist


---------------------------------------------------------------------------
(* simulated_annealing on the sample world and on a world with a dead end: *)
(* the corner (0, 0) has the start (1, 0) as its only legal neighbour, the *)
(* cell below it being a wall.                                             *)

DeadEndDraws ==
    {<<<<1, 0>>, {<<0, 1>>}, {<<13, 6>>}, {<<3, 5>>}, <<11, 3>>, <<12, 5>>, {<<13, 2>>}>>}

InitAnneal ==
    /\ \E d \in SampleDraws \cup DeadEndDraws : WorldReturned(d)
    /\ pc = "search_call"
    /\ TopoIdle
    /\ RunIdle
    /\ SimIdle
    /\ algo = "sa"
    /\ max_steps = MaxSteps
    /\ restarts = 0
    /\ t0 = 15
    /\ loc = [cur |-> NoPos]
    /\ result = NoResult
    /\ random_calls = 0

NextAnneal == SearchCall \/ SAStep \/ SAReturn

SpecAnneal == InitAnneal /\ [][NextAnneal]_vars

(* The path q turns back at once (A, B, A) only on cells B with exactly    *)
(* one legal neighbour.                                                    *)
TurnsOnlyAtDeadEnds(g, q) ==
    \A k \in 1 .. Len(q) - 2 :
        q[k] = q[k + 2] => Len(get_neighbors(g, q[k + 1])) = 1

(* C23: simulated_annealing never steps back to the cell it came from      *)
(* unless that cell is the only legal neighbour of the current cell: the   *)
(* path it builds, and the path it returns, hold a pattern A, B, A only    *)
(* where B has exactly one legal neighbour.                                *)
C23_NoImmediateReturn ==
    /\ pc \in {"sa_loop", "sa_end"} => TurnsOnlyAtDeadEnds(grid, loc.path)
    /\ (pc = "search_returned" /\ algo = "sa") => TurnsOnlyAtDeadEnds(grid, result.path)

C23_Witness ==
    /\ pc = "search_returned"
    /\ algo = "sa"
    /\ \E k \in 1 .. Len(result.path) - 2 : result.path[k] = result.path[k + 2]
    /\ Len(result.path) > 4


(* C24: in a path returned by hill_climbing, stochastic_hill_climbing or   *)
(* simulated_annealing the office occurs at most once, and only as the     *)
(* last element: no search moves on from the goal.                         *)
C24_GoalIsLast ==
    pc = "search_returned" =>
        \A k \in 1 .. Len(result.path) :
            result.path[k] = placement.office => k = Len(result.path)

C24_Witness ==
    /\ pc = "search_returned"
    /\ algo = "shc"
    /\ result.path[Len(result.path)] = placement.office
    /\ result.metrics.steps < (1 + restarts) * max_steps


---------------------------------------------------------------------------
(* validate_algos on every mapping of the three agents to an allowed name, *)
(* an unknown name or no entry.                                            *)

RawAlgos == [1 .. 3 -> Range(allowed) \cup {"bfs", NoAlgo}]

ValidateAlgos ==
    /\ pc = "validate"
    /\ algos' = validate_algos(raw)
    /\ pc' = "validated"
    /\ UNCHANGED <<MAIN_W, PAB_W, grid, worldVars, topoVars, simVars, searchVars,
                   random_calls, pipeline, raw, aid, raw_path, mtrace, agents>>

InitAlgos ==
    /\ MAIN_W = DefaultMainW
    /\ PAB_W = DefaultPabW
    /\ CONFIG \in Configs
    /\ max_tries = MaxTries
    /\ tries = 0
    /\ grid = empty_world
    /\ start = NoPos
    /\ walls_main = {}
    /\ walls_pab = {}
    /\ angry_main = {}
    /\ placement = NoPlacement
    /\ TopoIdle
    /\ SimIdle
    /\ SearchIdle
    /\ pc = "validate"
    /\ pipeline \in {"controller", "batch"}
    /\ raw \in RawAlgos
    /\ algos = <<>>
    /\ aid = 0
    /\ raw_path = <<>>
    /\ mtrace = <<>>
    /\ agents = <<>>

SpecAlgos == InitAlgos /\ [][ValidateAlgos]_vars

(* C25: whatever mapping it is given, validate_algos returns three         *)
(* pairwise distinct names out of hc, shc and sa for the agents 1, 2, 3,   *)
(* and the mapping itself when that already consists of three distinct    *)
(* allowed names.                                                          *)
C25_DistinctAlgorithms ==
    pc = "validated" =>
        /\ DOMAIN algos = 1 .. 3
        /\ \A i \in 1 .. 3 : algos[i] \in {"hc", "shc", "sa"}
        /\ \A i, j \in 1 .. 3 : i # j => algos[i] # algos[j]
        /\ ((\A i \in 1 .. 3 : raw[i] \in {"hc", "shc", "sa"})
               /\ (\A i, j \in 1 .. 3 : i # j => raw[i] # raw[j]))
             => algos = raw

C25_Witness ==
    /\ pc = "validated"
    /\ raw[1] = "sa"
    /\ raw[2] = "sa"
    /\ raw[3] = "bfs"
    /\ algos = <<"sa", "hc", "shc">>


(* The distance to the office, spelled out.                                *)
ToOffice(p) == abs(p[1] - placement.office[1]) + abs(p[2] - placement.office[2])

(* C26: a legal move changes the Manhattan distance to the office by       *)
(* exactly 1, so no move keeps the distance: the sideways counter of       *)
(* hill_climbing and the stagnation counter of simulated_annealing are 0   *)
(* in every state of a search, and so are the metrics returned.  The grid  *)
(* is the same in all states of a search: its moves are looked at when the *)
(* search is called.                                                       *)
C26_NoEqualDistanceMove ==
    /\ pc = "search_call" =>
           \A p \in DOMAIN grid : \A k \in 1 .. Len(get_neighbors(grid, p)) :
               abs(ToOffice(get_neighbors(grid, p)[k]) - ToOffice(p)) = 1
    /\ pc \in {"hc_loop", "hc_end"} => loc.sideways_used = 0
    /\ pc \in {"sa_loop", "sa_end"} => loc.stagnation = 0
    /\ (pc = "search_returned" /\ algo = "hc") => result.metrics.sideways = 0
    /\ (pc = "search_returned" /\ algo = "sa") => result.metrics.stagnation = 0

C26_Witness ==
    /\ pc = "search_returned"
    /\ algo = "sa"
    /\ result.metrics.stagnation = 0
    /\ \E k \in 1 .. Len(result.path) - 1 :
           ToOffice(result.path[k + 1]) > ToOffice(result.path[k])
    /\ \E k \in 1 .. Len(result.path) - 1 :
           ToOffice(result.path[k + 1]) < ToOffice(result.path[k])


---------------------------------------------------------------------------
(* simulated_annealing on a world where the walk can swing: the cell       *)
(* (1, 0) lies between the dead ends (0, 0) and (1, 1) and is left over    *)
(* (2, 0) and (3, 0), which has the dead end (3, 1) beside it, towards     *)
(* (4, 0) and the start (5, 0); walls stand on (0, 1), (1, 2), (2, 1),     *)
(* (3, 2) and (4, 1).  The walks explored stay on these eight cells.       *)

BounceSteps == 36

BounceDraws ==
    {<<<<5, 0>>, {<<0, 1>>, <<1, 2>>, <<2, 1>>, <<3, 2>>, <<4, 1>>}, {<<13, 6>>},
       {<<5, 5>>}, <<11, 3>>, <<12, 5>>, {<<13, 2>>}>>}

BounceCells ==
    {<<0, 0>>, <<1, 0>>, <<1, 1>>, <<2, 0>>, <<3, 0>>, <<3, 1>>, <<4, 0>>, <<5, 0>>}

(* An iteration of simulated_annealing whose proposal is accepted and      *)
(* leaves the walk on BounceCells.                                         *)
SABounce ==
    /\ SAStep
    /\ loc'.cur \in BounceCells
    /\ Len(loc'.path) > Len(loc.path)

InitBounce ==
    /\ \E d \in BounceDraws : WorldReturned(d)
    /\ pc = "search_call"
    /\ TopoIdle
    /\ RunIdle
    /\ SimIdle
    /\ algo = "sa"
    /\ max_steps = BounceSteps
    /\ restarts = 0
    /\ t0 = 15
    /\ loc = [cur |-> NoPos]
    /\ result = NoResult
    /\ random_calls = 0

NextBounce == SearchCall \/ SABounce \/ SAReturn

SpecBounce == InitBounce /\ [][NextBounce]_vars

(* How often the cell c occurs in the path q.                              *)
Occurrences(q, c) == Cardinality({k \in 1 .. Len(q) : q[k] = c})


(* C27: no cell occurs more than 14 times in a path of                     *)
(* simulated_annealing, built or returned: the loop goes on only from a    *)
(* cell left at most 12 times before, that is, one occurring at most 13    *)
(* times in the path so far.                                               *)
C27_AtMostFourteen ==
    /\ pc \in {"sa_loop", "sa_end"} =>
           \A c \in Range(loc.path) : Occurrences(loc.path, c) <= 14
    /\ pc = "sa_loop" => Occurrences(loc.path, loc.cur) - 1 <= 12
    /\ (pc = "search_returned" /\ algo = "sa") =>
           \A c \in Range(result.path) : Occurrences(result.path, c) <= 14

C27_Witness ==
    /\ pc = "search_returned"
    /\ algo = "sa"
    /\ Occurrences(result.path, <<1, 0>>) = 14
    /\ result.metrics.steps < max_steps

---------------------------------------------------------------------------
(* The setup dialog and the three samplings of an attempt: aua_setup.py    *)
(* lines 213-277 (submit), aua_world.py lines 116-127 and 171-246.         *)
(*                                                                         *)
(* The dialog's entries range over the widths from one below the smallest  *)
(* admitted up to PoolMainW and PoolPabW, and over the counts 0, 1, w - 1  *)
(* and w of a building of width w.  The start is any start candidate.  Of  *)
(* the shuffles of a pool two are explored: the one that puts the first k  *)
(* cells of the pool in front and the one that puts the last k in front.   *)

PoolMainW == 7
PoolPabW == 4

(* CONFIG before the dialog has written it (every entry None).             *)
NoConfig ==
    [main_w |-> 0, pab_w |-> 0, walls_main |-> 0, walls_pab |-> 0,
     angry_main |-> 0, angry_pab |-> 0]

CountEntries(w) == {0, 1, w - 1, w}

Entries ==
    {cfg \in [main_w : MinMainW - 1 .. PoolMainW, pab_w : MinPabW - 1 .. PoolPabW,
              walls_main : 0 .. PoolMainW, walls_pab : 0 .. PoolPabW,
              angry_main : 0 .. PoolMainW, angry_pab : 0 .. PoolPabW] :
        /\ cfg.walls_main \in CountEntries(cfg.main_w)
        /\ cfg.angry_main \in CountEntries(cfg.main_w)
        /\ cfg.walls_pab \in CountEntries(cfg.pab_w)
        /\ cfg.angry_pab \in CountEntries(cfg.pab_w)}

(* aua_setup.py lines 224-248: the entries that pass the validation.       *)
submit_accepts(cfg) ==
    /\ 7 <= cfg.main_w /\ cfg.main_w <= 100
    /\ 4 <= cfg.pab_w /\ cfg.pab_w <= 80
    /\ 0 <= cfg.angry_main /\ cfg.angry_main <= cfg.main_w
    /\ 0 <= cfg.walls_main /\ cfg.walls_main <= cfg.main_w - cfg.angry_main
    /\ 0 <= cfg.angry_pab /\ cfg.angry_pab <= cfg.pab_w
    /\ 0 <= cfg.walls_pab /\ cfg.walls_pab <= cfg.pab_w - cfg.angry_pab

(* Rejected entries leave the dialog open and CONFIG as it was.            *)
Submit ==
    /\ pc = "setup"
    /\ \E cfg \in Entries :
           /\ submit_accepts(cfg)
           /\ CONFIG' = cfg
    /\ pc' = "idle"
    /\ UNCHANGED <<MAIN_W, PAB_W, grid, max_tries, tries, start, walls_main,
                   walls_pab, angry_main, placement, nonWorld>>

(* The place of a cell in all_main_cells() and all_pab_cells(), which list *)
(* column by column.                                                       *)
PoolCell(key) == <<key \div MAIN_H, key % MAIN_H>>

RECURSIVE TakeUp(_, _, _)
TakeUp(pool, k, key) ==
    IF k = 0 \/ key >= WORLD_W * MAIN_H THEN {}
    ELSE IF PoolCell(key) \in pool
         THEN {PoolCell(key)} \cup TakeUp(pool, k - 1, key + 1)
         ELSE TakeUp(pool, k, key + 1)

RECURSIVE TakeDown(_, _, _)
TakeDown(pool, k, key) ==
    IF k = 0 \/ key < 0 THEN {}
    ELSE IF PoolCell(key) \in pool
         THEN {PoolCell(key)} \cup TakeDown(pool, k - 1, key - 1)
         ELSE TakeDown(pool, k, key - 1)

FirstK(pool, k) == TakeUp(pool, k, 0)

LastK(pool, k) == TakeDown(pool, k, WORLD_W * MAIN_H - 1)

sample_ends(candidates, k, exclude) ==
    UNION {{FirstK(pool, k), LastK(pool, k)} : pool \in {candidates \ exclude}}

(* Lines 171-197 with every start candidate drawn.                         *)
StartAnywhere ==
    /\ pc = "attempt"
    /\ tries < max_tries
    /\ tries' = tries + 1
    /\ grid' = Paint(empty_world, bridge_cells, BRIDGE)
    /\ IF start_candidates = {}
       THEN /\ pc' = "raised"
            /\ start' = NoPos
       ELSE /\ pc' = "walls"
            /\ start' \in start_candidates
    /\ UNCHANGED <<MAIN_W, PAB_W, CONFIG, max_tries, walls_main, walls_pab,
                   angry_main, placement, nonWorld>>

(* Lines 199-231.                                                          *)
WallsAtEnds ==
    /\ pc = "walls"
    /\ IF sample_raises(all_main_cells, CONFIG.walls_main, walls_main_exclude(start))
          \/ sample_raises(all_pab_cells, CONFIG.walls_pab, forbidden_bridge)
       THEN Continue
       ELSE \E wm \in sample_ends(all_main_cells, CONFIG.walls_main,
                                  walls_main_exclude(start)),
               wp \in sample_ends(all_pab_cells, CONFIG.walls_pab, forbidden_bridge) :
                    \E g \in {Paint(Paint(grid, wm, WALL), wp, WALL)} :
                        IF g[BRIDGE_ENTRANCE_MAIN] = WALL \/ g[BRIDGE_ENTRANCE_PAB] = WALL
                        THEN Continue
                        ELSE /\ walls_main' = wm
                             /\ walls_pab' = wp
                             /\ grid' = g
                             /\ pc' = "angry_main"
                             /\ UNCHANGED <<MAIN_W, PAB_W, CONFIG, max_tries, tries,
                                            start, angry_main, placement, nonWorld>>

(* Lines 233-246.                                                          *)
AngryAtEnds ==
    /\ pc = "angry_main"
    /\ LET excl == occupied_main(walls_main, start) \cup safe_corridor(start)
       IN  IF sample_raises(all_main_cells, CONFIG.angry_main, excl)
           THEN Continue
           ELSE \E am \in sample_ends(all_main_cells, CONFIG.angry_main, excl) :
                    /\ angry_main' = am
                    /\ grid' = Paint(grid, am, ANGRY)
                    /\ pc' = "pab"
                    /\ UNCHANGED <<MAIN_W, PAB_W, CONFIG, max_tries, tries, start,
                                   walls_main, walls_pab, placement, nonWorld>>

InitPools ==
    /\ MAIN_W = DefaultMainW
    /\ PAB_W = DefaultPabW
    /\ CONFIG = NoConfig
    /\ max_tries = MaxTries
    /\ pc = "setup"
    /\ tries = 0
    /\ grid = empty_world
    /\ start = NoPos
    /\ walls_main = {}
    /\ walls_pab = {}
    /\ angry_main = {}
    /\ placement = NoPlacement
    /\ TopoIdle
    /\ RunIdle
    /\ SimIdle
    /\ SearchIdle

NextPools ==
    \/ Submit
    \/ BuildWorld
    \/ StartAnywhere
    \/ WallsAtEnds
    \/ AngryAtEnds

SpecPools == InitPools /\ [][NextPools]_vars

(* C29: for every configuration the dialog admits and every start, the     *)
(* pools of the Main walls, the Pab walls and the Main hazards hold at     *)
(* least the requested number of cells: sample_unique does not raise in    *)
(* these three steps, the drawn sets have the requested sizes, and no      *)
(* attempt is abandoned there.                                             *)
C29_PoolsSuffice ==
    /\ pc = "walls" =>
           /\ ~sample_raises(all_main_cells, CONFIG.walls_main, walls_main_exclude(start))
           /\ ~sample_raises(all_pab_cells, CONFIG.walls_pab, forbidden_bridge)
    /\ pc = "angry_main" =>
           /\ ~sample_raises(all_main_cells, CONFIG.angry_main,
                             occupied_main(walls_main, start) \cup safe_corridor(start))
           /\ Cardinality(walls_main) = CONFIG.walls_main
           /\ Cardinality(walls_pab) = CONFIG.walls_pab
    /\ pc = "pab" => Cardinality(angry_main) = CONFIG.angry_main
    /\ pc = "attempt" => start = NoPos /\ tries = 0

C29_Witness ==
    /\ pc = "pab"
    /\ start[1] = 0
    /\ CONFIG.walls_main = 1
    /\ CONFIG.angry_main = CONFIG.main_w - 1
    /\ CONFIG.walls_pab = CONFIG.pab_w
    /\ Cardinality(angry_main) = CONFIG.angry_main

=============================================================================
